---- MODULE Spec2Model ----
(***************************************************************************)
(* WebHookSpy (src/src/server.ts): endpoint lifecycle, request capture,    *)
(* retention, rate limiting, expiration sweep and the live-stream          *)
(* registry, as a state machine.                                           *)
(*                                                                         *)
(* Time is the millisecond clock Date.now(); ISO timestamps are modelled   *)
(* by the millisecond value they print (toISOString is order preserving).  *)
(* Endpoint ids are naturals standing for 32-hex strings.  A handler runs  *)
(* atomically up to its first real suspension point (await of the request  *)
(* body, of the password hash or of its verification) and from there to    *)
(* its end; the parts are separate actions and the handler's local         *)
(* variables wait in inflight.                                             *)
(***************************************************************************)
EXTENDS Integers, FiniteSets, Sequences, TLC

\* ---------------------------------------------------------------- constants
EXPIRATION_MS == 1000 * 60 * 60 * 24 * 7
MAX_REQUESTS_PER_ENDPOINT == 100
RATE_LIMIT_WINDOW_MS == 60000
RATE_LIMIT_MAX_REQUESTS == 100
\* the creation cap taken from the capture cap
CreatesCappedAsRequests == RATE_LIMIT_MAX_REQUESTS
RATE_LIMIT_MAX_ENDPOINT_CREATES == 10
CLEANUP_THROTTLE_MS == 60000
MAX_BODY_BYTES == 512 * 1024

\* ------------------------------------------------------------------- bounds
NumClientIds == 1
NumGeneratedIds == 12
MaxKeys == 1
MaxInFlight == 2
MaxStreams == 1
\* clock advances and requests that arrive in one behaviour, per specification
MaxTicks == 2
MaxRequests == 3
MaxCalls == 5
MaxCreates == 12
MaxWarmRequests == 3
\* the largest maxRequests a caller of checkRateLimit passes
MaxLimit == 2
\* requests of a race on one id
MaxRaceRequests == 3
\* requests against a protected and an unprotected endpoint
MaxAccessRequests == 2
\* requests, streams and heartbeats of the live-stream behaviours
MaxStreamRequests == 2
MaxSubscriptions == 2
MaxBeats == 1
\* clock steps and requests around the expiration sweep
MaxSweepTicks == 3
MaxSweepRequests == 3
MaxHandshakeRequests == 3
MaxRoutingTicks == 1
MaxRoutingRequests == 3
MaxQuotaRequests == 5
MaxBodyRequests == 2
MaxFilterRequests == 1
MaxFilters == 2
MaxPrivacyTicks == 1
MaxPrivacyRequests == 3
\* requests, further streams and heartbeats of intact streams while a stream fails
MaxFailureRequests == 2
MaxFailureStreams == 1
MaxFailureBeats == 1
\* clock steps and requests around the limiter timer
MaxTimerTicks == 1
MaxTimerRequests == 2
\* captures already taken when SpecRetention starts
WarmRows == 99

StartTime == 60000

Ips == {1, 2}
ClientIds == 1..NumClientIds
Slots == 1..MaxInFlight
Handles == 1..MaxStreams
\* an access key a client may send: none (NULL), an issued one, or one never issued
Keys == 0..MaxKeys

\* the amounts the clock advances by, per specification
TickSteps == {1, EXPIRATION_MS - 1}
WindowSteps == {1, RATE_LIMIT_WINDOW_MS}
ExpirySteps == {EXPIRATION_MS}
CaptureSteps == {RATE_LIMIT_WINDOW_MS + 1}
\* the clock around a sweep: a millisecond, the throttle interval, and up to the
\* last millisecond an endpoint lives
SweepSteps == {1, CLEANUP_THROTTLE_MS, EXPIRATION_MS - 1}
\* the clock stays below this, within the integers TLC computes with
Horizon == 2 * EXPIRATION_MS + 2 * RATE_LIMIT_WINDOW_MS

NULL == 0

\* what a client sends as access key of the endpoint that was issued key 1:
\* nothing, that key, a key never issued
TriedKeys == {NULL, 1, MaxKeys + 1}
\* what the holder of key 1 sends: nothing or the key
HolderKeys == {NULL, 1}
\* a TEXT column holding NULL; a text is a non-empty tuple
NoText == <<>>

\* what a client sends to a capture route: method, pathname with search, the
\* query parameters and the headers as sets of <<name, value>>, and the body
\* by its length in bytes and by its text ("" for no body)
\* the body also by the validation code it carries when it is a JSON array
\* holding a Microsoft.EventGrid.SubscriptionValidationEvent, NoText otherwise
PlainRequest ==
  [method |-> "POST", path |-> "/", query |-> {},
   headers |-> {<<"content-type", "text/plain">>}, bytes |-> 0, text |-> "",
   validationCode |-> NoText]
LargeRequest ==
  [method |-> "PUT", path |-> "/hook?a=1", query |-> {<<"a", "1">>},
   headers |-> {<<"content-type", "application/json">>}, bytes |-> MAX_BODY_BYTES + 1,
   text |-> "xxx...", validationCode |-> NoText]
CaptureRequests == {PlainRequest, LargeRequest}
\* a browser opening the capture URL
BrowserRequest ==
  [method |-> "GET", path |-> "/", query |-> {},
   headers |-> {<<"accept", "text/html,application/xhtml+xml">>}, bytes |-> 0, text |-> "",
   validationCode |-> NoText]
\* the subscription validation event Azure Event Grid posts to a new webhook
ValidationRequest ==
  [method |-> "POST", path |-> "/", query |-> {},
   headers |-> {<<"content-type", "application/json">>}, bytes |-> 111,
   text |-> "[{\"eventType\":\"Microsoft.EventGrid.SubscriptionValidationEvent\",\"data\":{\"validationCode\":\"test-code-123\"}}]",
   validationCode |-> <<"test-code-123">>]
\* requests with small bodies, read back through filters
UserRequest ==
  [method |-> "POST", path |-> "/orders?rand=24052", query |-> {<<"rand", "24052">>},
   headers |-> {<<"content-type", "application/json">>}, bytes |-> 13,
   text |-> "{\"user_id\":1}", validationCode |-> NoText]
StatusRequest ==
  [method |-> "PUT", path |-> "/hook", query |-> {},
   headers |-> {<<"content-type", "application/json">>, <<"x-event", "order">>}, bytes |-> 22,
   text |-> "{\"status\":\"completed\"}", validationCode |-> NoText]
NoteRequest ==
  [method |-> "POST", path |-> "/hook", query |-> {},
   headers |-> {<<"content-type", "text/plain">>}, bytes |-> 14,
   text |-> "status pending", validationCode |-> NoText]

VARIABLES
  now,                    \* Date.now()
  foreignKeys,            \* whether the SQLite connection enforces FOREIGN KEY
  endpoints,              \* table endpoints: id -> row
  requests,               \* table requests: set of rows
  seq,                    \* AUTOINCREMENT sequence of requests.id
  lastCleanup,            \* let lastCleanup
  generated,              \* how many endpoint ids and access keys were generated
  endpointCreateLimiter,  \* Map ip -> {count, resetTime}
  requestLimiter,         \* Map ip -> {count, resetTime}
  subscribers,            \* Map endpointId -> Set<Subscriber>
  streams,                \* per live stream: the frames enqueued, open or closed
  inflight,               \* handlers suspended at an await: slot -> locals
  limiter,                \* a caller-owned Map handed to checkRateLimit
  maxRequests,            \* the maxRequests that caller passes
  resp,                   \* what the latest step did or returned
  swept,                  \* ids the sweep removed and nobody re-created since
  grants,                 \* per limiter and key: allowed calls under one deadline
  budget                  \* requests of each kind still to arrive

vars == <<now, foreignKeys, endpoints, requests, seq, lastCleanup, generated,
          endpointCreateLimiter, requestLimiter, subscribers, streams,
          inflight, limiter, maxRequests, resp, swept, grants, budget>>

dbVars == <<endpoints, requests, seq, lastCleanup, swept>>
limiterVars == <<endpointCreateLimiter, requestLimiter>>
sseVars == <<subscribers, streams>>
callerVars == <<limiter, maxRequests>>

NoResponse == [op |-> "none"]
EmptyMap == [k \in {} |-> 0]

Min(S) == CHOOSE x \in S : \A y \in S : x <= y
Max(S) == CHOOSE x \in S : \A y \in S : x >= y

\* Math.ceil(a / b) for a >= 0, b > 0
Ceil(a, b) == (a + b - 1) \div b

\* Map.set / Map.delete
MapSet(m, k, v) == [x \in DOMAIN m \cup {k} |-> IF x = k THEN v ELSE m[x]]
MapDelete(m, k) == [x \in DOMAIN m \ {k} |-> m[x]]

\* ------------------------------------------------------------ rate limiter
\* checkRateLimit comparing the count with > where the code has >=
checkRateLimit_OverCap(lim, ip, maxReq) ==
  IF ip \notin DOMAIN lim \/ now > lim[ip].resetTime
  THEN [limiter |-> MapSet(lim, ip, [count |-> 1, resetTime |-> now + RATE_LIMIT_WINDOW_MS]),
        allowed |-> TRUE, remaining |-> maxReq - 1, resetIn |-> RATE_LIMIT_WINDOW_MS]
  ELSE IF lim[ip].count > maxReq
  THEN [limiter |-> lim, allowed |-> FALSE, remaining |-> 0, resetIn |-> lim[ip].resetTime - now]
  ELSE [limiter |-> [lim EXCEPT ![ip].count = @ + 1], allowed |-> TRUE,
        remaining |-> maxReq - (lim[ip].count + 1), resetIn |-> lim[ip].resetTime - now]

\* checkRateLimit that starts a window only for a key it has no record of
checkRateLimit_NoReset(lim, ip, maxReq) ==
  IF ip \notin DOMAIN lim
  THEN [limiter |-> MapSet(lim, ip, [count |-> 1, resetTime |-> now + RATE_LIMIT_WINDOW_MS]),
        allowed |-> TRUE, remaining |-> maxReq - 1, resetIn |-> RATE_LIMIT_WINDOW_MS]
  ELSE IF lim[ip].count >= maxReq
  THEN [limiter |-> lim, allowed |-> FALSE, remaining |-> 0, resetIn |-> lim[ip].resetTime - now]
  ELSE [limiter |-> [lim EXCEPT ![ip].count = @ + 1], allowed |-> TRUE,
        remaining |-> maxReq - (lim[ip].count + 1), resetIn |-> lim[ip].resetTime - now]

checkRateLimit_ForgetsOthers(lim, ip, maxReq) ==
  IF ip \notin DOMAIN lim \/ now > lim[ip].resetTime
  THEN [limiter |-> MapSet(EmptyMap, ip, [count |-> 1, resetTime |-> now + RATE_LIMIT_WINDOW_MS]),
        allowed |-> TRUE, remaining |-> maxReq - 1, resetIn |-> RATE_LIMIT_WINDOW_MS]
  ELSE IF lim[ip].count >= maxReq
  THEN [limiter |-> lim, allowed |-> FALSE, remaining |-> 0,
        resetIn |-> lim[ip].resetTime - now]
  ELSE [limiter |-> [lim EXCEPT ![ip].count = @ + 1],
        allowed |-> TRUE, remaining |-> maxReq - (lim[ip].count + 1),
        resetIn |-> lim[ip].resetTime - now]
checkRateLimit(lim, ip, maxReq) ==
  IF ip \notin DOMAIN lim \/ now > lim[ip].resetTime
  THEN [limiter |-> MapSet(lim, ip, [count |-> 1, resetTime |-> now + RATE_LIMIT_WINDOW_MS]),
        allowed |-> TRUE, remaining |-> maxReq - 1, resetIn |-> RATE_LIMIT_WINDOW_MS]
  ELSE IF lim[ip].count >= maxReq
  THEN [limiter |-> lim, allowed |-> FALSE, remaining |-> 0,
        resetIn |-> lim[ip].resetTime - now]
  ELSE [limiter |-> [lim EXCEPT ![ip].count = @ + 1],
        allowed |-> TRUE, remaining |-> maxReq - (lim[ip].count + 1),
        resetIn |-> lim[ip].resetTime - now]

\* the Retry-After header of a 429
retryAfter(resetIn) == Ceil(resetIn, 1000)

\* a sweep that also drops the entries whose window ends at this millisecond
sweepLimiter_AtDeadline(lim) ==
  [k \in {i \in DOMAIN lim : ~(now >= lim[i].resetTime)} |-> lim[k]]

\* setInterval(..., 60_000): drop the entries whose window is over
sweepLimiter(lim) == [k \in {i \in DOMAIN lim : ~(now > lim[i].resetTime)} |-> lim[k]]

\* the allowed calls of ip under the deadline that lim holds for it after a call
Granted(g, lim, ip, allowed) ==
  IF ~allowed THEN g
  ELSE IF ip \in DOMAIN g /\ g[ip].deadline = lim[ip].resetTime
  THEN [g EXCEPT ![ip].n = @ + 1]
  ELSE MapSet(g, ip, [deadline |-> lim[ip].resetTime, n |-> 1])

\* -------------------------------------------------------------- access keys
\* Bun.password.hash is a salted one-way hash: a value that is no key and not NULL
hashAccessKey(key) == 0 - key

\* verifyAccessKey that accepts every key
verifyAccessKey_Any(key, hash) == TRUE

verifyAccessKey(key, hash) == hash = hashAccessKey(key)

\* const accessKey = query.key || headers["x-access-key"]; an absent or empty
\* value is NULL
accessKeyOf(queryKey, headerKey) == IF queryKey # NULL THEN queryKey ELSE headerKey
\* which of the two carried the access key
accessKeyVia(queryKey, headerKey) ==
  IF queryKey # NULL THEN "query" ELSE IF headerKey # NULL THEN "header" ELSE "none"
isEndpointProtected(endpoint) == endpoint.password_hash # NULL

\* endpoint ids as clients write them: a positive number stands for a string
\* of 32 lowercase hex characters, UpperCaseId for 32 hex characters with
\* capitals ("0123456789ABCDEf0123456789ABCDEF"), InvalidId for any other
\* string ("not-a-valid-id")
UpperCaseId == 0 - 1
InvalidId == 0 - 2
\* /^[a-f0-9]{32}$/i
isValidEndpointId_Any(id) == TRUE
isValidEndpointId(id) == id # InvalidId
\* params: t.Object({ id: t.String({ pattern: "^[a-f0-9]{32}$" }) })
matchesIdPattern(id) == id \notin {UpperCaseId, InvalidId}

\* ------------------------------------------------------------- persistence
RowsOf(reqs, id) == {r \in reqs : r.endpoint_id = id}

\* JSON.stringify / JSON.parse of an object
JSONstringify(object) == <<"json", object>>
JSONparse(text) == text[2]

\* the id an INSERT INTO requests gets: id INTEGER PRIMARY KEY AUTOINCREMENT,
\* one more than the largest id the table ever held
lastInsertRowid_MaxRowid(sequence, reqs) == Max({r.id : r \in reqs} \cup {0}) + 1
lastInsertRowid(sequence, reqs) == sequence + 1

\* handleWebhookCapture's row with the cap applied from MAX_BODY_BYTES on
RequestRow_CapsAtLimit(rowid, endpointId, req, ip, t) ==
  [id |-> rowid,
   endpoint_id |-> endpointId,
   method |-> req.method,
   headers |-> JSONstringify(req.headers),
   body |-> IF req.bytes = 0 THEN NoText
            ELSE <<"utf8", Min({req.bytes, MAX_BODY_BYTES - 1}), req.text>>,
   truncated |-> IF req.bytes >= MAX_BODY_BYTES THEN 1 ELSE 0,
   query |-> IF req.query = {} THEN NoText ELSE JSONstringify(req.query),
   created_at |-> t,
   path |-> req.path,
   ip |-> ip]
\* the row handleWebhookCapture inserts for request req, read in full, from
\* address ip at time t, and builds again for the broadcast; a body is the
\* decoding of so many bytes of the text the client sent
RequestRow(rowid, endpointId, req, ip, t) ==
  [id |-> rowid,
   endpoint_id |-> endpointId,
   method |-> req.method,
   headers |-> JSONstringify(req.headers),
   body |-> IF req.bytes = 0 THEN NoText
            ELSE <<"utf8", Min({req.bytes, MAX_BODY_BYTES}), req.text>>,
   truncated |-> IF req.bytes > MAX_BODY_BYTES THEN 1 ELSE 0,
   query |-> IF req.query = {} THEN NoText ELSE JSONstringify(req.query),
   created_at |-> t,
   path |-> req.path,
   ip |-> ip]

\* what handleWebhookCapture answers once the request is stored and broadcast:
\* the "Request Captured" page for a browser, the text "Captured" otherwise
captureResponse(req) ==
  IF \E h \in req.headers : h[1] = "accept" /\ h[2] \in {"text/html", "text/html,application/xhtml+xml"}
  THEN [contentType |-> "text/html; charset=utf-8", body |-> <<"html", "Request Captured!">>]
  ELSE [contentType |-> "text/plain;charset=utf-8", body |-> <<"text", "Captured">>]

mapRequest(row) ==
  [id |-> row.id,
   method |-> row.method,
   headers |-> IF row.headers # NoText THEN JSONparse(row.headers) ELSE {},
   body |-> row.body,
   truncated |-> row.truncated # 0,
   query |-> IF row.query # NoText THEN JSONparse(row.query) ELSE {},
   createdAt |-> row.created_at,
   path |-> row.path,
   ip |-> row.ip]

\* crypto.randomUUID() without the dashes: an id never seen before
generateEndpointId == NumClientIds + generated.ids + 1
\* crypto.getRandomValues(24 bytes) behind the prefix: a key never seen before
generateAccessKey == generated.keys + 1
\* the ids a client can name: its own and those a create has returned
PendingIds == {inflight[s].id : s \in {x \in DOMAIN inflight : inflight[x].kind = "create"}}
KnownIds == (ClientIds \cup (NumClientIds + 1)..(NumClientIds + generated.ids)) \ PendingIds

\* the row createEndpoint builds at time t
EndpointRow(id, t, hash) ==
  [id |-> id, created_at |-> t, expires_at |-> t + EXPIRATION_MS, password_hash |-> hash]

\* ensureEndpoint that refreshes the expiration of the row it finds
ensureEndpoint_Refreshes(eps, id) ==
  IF id \in DOMAIN eps THEN [eps EXCEPT ![id].expires_at = now + EXPIRATION_MS]
  ELSE MapSet(eps, id, EndpointRow(id, now, NULL))

\* ensureEndpoint that writes its row with INSERT OR REPLACE, found or not
ensureEndpoint_Replaces(eps, id) == MapSet(eps, id, EndpointRow(id, now, NULL))

\* ensureEndpoint on table eps: the row of id, inserted unprotected when absent;
\* getEndpoint and the INSERT of createEndpoint(id, false) run without an await
\* between them
ensureEndpoint(eps, id) ==
  IF id \in DOMAIN eps THEN eps ELSE MapSet(eps, id, EndpointRow(id, now, NULL))

\* a refresh that writes the whole row anew
refreshEndpointExpiration_Rewrites(eps, id) ==
  [e \in DOMAIN eps |-> IF e = id THEN EndpointRow(id, now, NULL) ELSE eps[e]]
refreshEndpointExpiration(eps, id) ==
  [e \in DOMAIN eps |->
     IF e = id THEN [eps[e] EXCEPT !.expires_at = now + EXPIRATION_MS] ELSE eps[e]]

\* pruneOldRequests whose subquery keeps one row more than the cap
pruneOldRequests_OffByOne(reqs, id) ==
  LET mine == RowsOf(reqs, id)
      newest == {r \in mine :
                   Cardinality({q \in mine : q.id > r.id}) <= MAX_REQUESTS_PER_ENDPOINT}
  IN {r \in reqs : r.endpoint_id # id \/ r \in newest}

\* pruneOldRequests whose subquery orders by id ASC and so keeps the oldest rows
pruneOldRequests_KeepsOldest(reqs, id) ==
  LET mine == RowsOf(reqs, id)
      oldest == {r \in mine :
                   Cardinality({q \in mine : q.id < r.id}) < MAX_REQUESTS_PER_ENDPOINT}
  IN {r \in reqs : r.endpoint_id # id \/ r \in oldest}

\* DELETE ... WHERE endpoint_id = ? AND id NOT IN (SELECT id ... ORDER BY id DESC LIMIT ?)
pruneOldRequests(reqs, id) ==
  LET mine == RowsOf(reqs, id)
      newest == {r \in mine :
                   Cardinality({q \in mine : q.id > r.id}) < MAX_REQUESTS_PER_ENDPOINT}
  IN {r \in reqs : r.endpoint_id # id \/ r \in newest}

\* DELETE FROM endpoints WHERE id = ?, with ON DELETE CASCADE when enforced
deleteEndpointRow(eps, reqs, id) ==
  [endpoints |-> MapDelete(eps, id),
   requests |-> IF foreignKeys THEN reqs \ RowsOf(reqs, id) ELSE reqs]

\* cleanupExpired() without the throttle
cleanupExpired_Unthrottled ==
  LET expired == {e \in DOMAIN endpoints : endpoints[e].expires_at <= now}
  IN [endpoints |-> [e \in DOMAIN endpoints \ expired |-> endpoints[e]],
      requests |-> {r \in requests : r.endpoint_id \notin expired},
      lastCleanup |-> now,
      swept |-> swept \cup expired]

\* cleanupExpired() that spares the endpoints expiring at this very millisecond
cleanupExpired_StrictlyBefore ==
  IF now - lastCleanup < CLEANUP_THROTTLE_MS
  THEN [endpoints |-> endpoints, requests |-> requests,
        lastCleanup |-> lastCleanup, swept |-> swept]
  ELSE LET expired == {e \in DOMAIN endpoints : endpoints[e].expires_at < now}
       IN [endpoints |-> [e \in DOMAIN endpoints \ expired |-> endpoints[e]],
           requests |-> {r \in requests : r.endpoint_id \notin expired},
           lastCleanup |-> now,
           swept |-> swept \cup expired]

\* cleanupExpired(), run by onRequest before every handler
cleanupExpired ==
  IF now - lastCleanup < CLEANUP_THROTTLE_MS
  THEN [endpoints |-> endpoints, requests |-> requests,
        lastCleanup |-> lastCleanup, swept |-> swept]
  ELSE LET expired == {e \in DOMAIN endpoints : endpoints[e].expires_at <= now}
       IN [endpoints |-> [e \in DOMAIN endpoints \ expired |-> endpoints[e]],
           requests |-> {r \in requests : r.endpoint_id \notin expired},
           lastCleanup |-> now,
           swept |-> swept \cup expired]

\* SELECT * FROM requests WHERE endpoint_id = ? AND id = ? LIMIT 1
selectRequest_AnyEndpoint(reqs, id, requestId) == {r \in reqs : r.id = requestId}
selectRequest(reqs, id, requestId) == {r \in RowsOf(reqs, id) : r.id = requestId}
\* DELETE FROM requests WHERE endpoint_id = ? AND id = ?
deleteRequestRow(reqs, id, requestId) == {r \in reqs : ~(r.endpoint_id = id /\ r.id = requestId)}
\* DELETE FROM requests WHERE endpoint_id = ?
clearRequestRows_Everywhere(reqs, id) == [requests |-> {}, changes |-> Cardinality(reqs)]
clearRequestRows(reqs, id) ==
  [requests |-> reqs \ RowsOf(reqs, id), changes |-> Cardinality(RowsOf(reqs, id))]

\* SELECT * FROM requests WHERE endpoint_id = ? ORDER BY id DESC LIMIT 100
recentRequests(reqs, id) ==
  LET mine == RowsOf(reqs, id)
  IN {r \in mine : Cardinality({q \in mine : q.id > r.id}) < 100}

\* String.prototype.toUpperCase and toLowerCase on the names used here
toUpperCase(str) ==
  CASE str = "post" -> "POST"
    [] str = "put" -> "PUT"
    [] str = "get" -> "GET"
    [] OTHER -> str
toLowerCase(str) ==
  CASE str = "Content-Type" -> "content-type"
    [] str = "X-Event" -> "x-event"
    [] OTHER -> str

\* the bodies of the requests read back through filters
UserBody == "{\"user_id\":1}"
StatusBody == "{\"status\":\"completed\"}"
NoteBody == "status pending"

\* String.prototype.includes on the texts used here
Substrings ==
  {<<"/hook", "hook">>, <<"/hook", "/">>, <<"/hook?a=1", "hook">>, <<"/hook?a=1", "/">>,
   <<"/orders?rand=24052", "/">>, <<"/orders?rand=24052", "rand">>,
   <<UserBody, "user_id">>, <<StatusBody, "status">>, <<StatusBody, "completed">>,
   <<NoteBody, "status">>,
   <<"application/json", "json">>, <<"application/json", "application">>,
   <<"text/plain", "text">>}
includes(str, part) == part = "" \/ part = str \/ <<str, part>> \in Substrings

\* JSON.parse of a body text: the object as a set of <<key, String(value)>>,
\* or a SyntaxError
JSONparseText(text) ==
  CASE text = UserBody -> [ok |-> TRUE, object |-> {<<"user_id", "1">>}]
    [] text = StatusBody -> [ok |-> TRUE, object |-> {<<"status", "completed">>}]
    [] OTHER -> [ok |-> FALSE, object |-> {}]
\* String(parsed[key])
StringOf(object, key) ==
  IF \E kv \in object : kv[1] = key
  THEN (CHOOSE kv \in object : kv[1] = key)[2]
  ELSE "undefined"

\* indexOf(":") with slice(0, colonIdx) and slice(colonIdx + 1) on the
\* key:value arguments used here
splitAtColon(str) ==
  CASE str = "status:completed" -> [colonIdx |-> 6, key |-> "status", value |-> "completed"]
    [] str = "user_id:1" -> [colonIdx |-> 7, key |-> "user_id", value |-> "1"]
    [] str = "rand:24052" -> [colonIdx |-> 4, key |-> "rand", value |-> "24052"]
    [] str = "content-type:json" -> [colonIdx |-> 12, key |-> "content-type", value |-> "json"]
    [] str = ":completed" -> [colonIdx |-> 0, key |-> "", value |-> "completed"]
    [] OTHER -> [colonIdx |-> 0 - 1, key |-> "", value |-> str]

\* parseInt(str, 10) on the limits used here: {} is NaN
parseInt(str) ==
  CASE str = "1" -> {1}
    [] str = "2" -> {2}
    [] str = "2abc" -> {2}
    [] str = "0" -> {0}
    [] str = "-1" -> {0 - 1}
    [] OTHER -> {}

\* the filters of GET /api/endpoints/:id/requests in the order the handler
\* applies them; a client sets each to a string, "" when absent
FilterNames == <<"method", "path", "body", "body_key", "body_value", "query_key",
                 "query_value", "header_key", "header_value">>
NoFilter ==
  [method |-> "", path |-> "", body |-> "", body_key |-> "", body_value |-> "",
   query_key |-> "", query_value |-> "", header_key |-> "", header_value |-> "",
   limit |-> ""]

\* if (query.<name>), and colonIdx > 0 for a key:value filter
filterApplies(name, filter) ==
  /\ filter[name] # ""
  /\ name \in {"body_value", "query_value", "header_value"} => splitAtColon(filter[name]).colonIdx > 0

\* the callback each requests.filter(...) gets for mapped request r
matchesFilter(name, r, filter) ==
  LET kv == splitAtColon(filter[name])
  IN CASE name = "method" -> toUpperCase(r.method) = toUpperCase(filter.method)
       [] name = "path" -> includes(r.path, filter.path)
       [] name = "body" -> r.body # NoText /\ includes(r.body[3], filter.body)
       [] name = "body_key" ->
            /\ r.body # NoText
            /\ JSONparseText(r.body[3]).ok
            /\ \E p \in JSONparseText(r.body[3]).object : p[1] = filter.body_key
       [] name = "body_value" ->
            /\ r.body # NoText
            /\ JSONparseText(r.body[3]).ok
            /\ StringOf(JSONparseText(r.body[3]).object, kv.key) = kv.value
       [] name = "query_key" -> \E p \in r.query : p[1] = filter.query_key
       [] name = "query_value" -> <<kv.key, kv.value>> \in r.query
       [] name = "header_key" ->
            \E h \in r.headers : toLowerCase(h[1]) = toLowerCase(filter.header_key)
       [] name = "header_value" ->
            \E h \in r.headers :
              toLowerCase(h[1]) = toLowerCase(kv.key) /\ includes(h[2], kv.value)

applyFilter(name, mapped, filter) ==
  IF filterApplies(name, filter)
  THEN {r \in mapped : matchesFilter(name, r, filter)}
  ELSE mapped

RECURSIVE applyFilters(_, _, _)
applyFilters(names, mapped, filter) ==
  IF names = <<>> THEN mapped
  ELSE applyFilters(Tail(names), applyFilter(Head(names), mapped, filter), filter)

\* if (query.limit) { const limit = parseInt(...); if (!isNaN(limit) && limit > 0)
\* requests = requests.slice(0, limit) }, over requests listed newest first
applyLimit(mapped, filter) ==
  IF filter.limit # "" /\ \E n \in parseInt(filter.limit) : n > 0
  THEN LET limit == CHOOSE n \in parseInt(filter.limit) : TRUE
       IN {r \in mapped : Cardinality({q \in mapped : q.id > r.id}) < limit}
  ELSE mapped

\* the handler with the slice taken before the filters
filterRequests_LimitFirst(mapped, filter) ==
  applyFilters(FilterNames, applyLimit(mapped, filter), filter)
\* the filters in the handler's order, then the slice, over the rows mapped
\* newest first
filterRequests(mapped, filter) ==
  applyLimit(applyFilters(FilterNames, mapped, filter), filter)

\* ------------------------------------------------------------ live streams
\* A stream is the ReadableStream of one handleSse call together with the
\* closure variables of that call: registered (subscriber is defined),
\* heartbeat (the interval is set), open (the controller was not closed or
\* cancelled), broken (the runtime lost the connection: enqueue throws), and
\* the frames enqueued so far.
ReadyFrame == [type |-> "ready", arg |-> 0]
KeepAliveFrame == [type |-> "heartbeat", arg |-> 0]

SubscribersOf(subs, id) == IF id \in DOMAIN subs THEN subs[id] ELSE {}

addSubscriber(subs, id, h) == MapSet(subs, id, SubscribersOf(subs, id) \cup {h})

\* removeSubscriber that leaves the emptied Set in the Map
removeSubscriber_KeepsEmptySet(subs, id, h) ==
  IF id \notin DOMAIN subs THEN subs
  ELSE [subs EXCEPT ![id] = @ \ {h}]

removeSubscriber(subs, id, h) ==
  IF id \notin DOMAIN subs THEN subs
  ELSE IF subs[id] \ {h} = {} THEN MapDelete(subs, id)
  ELSE [subs EXCEPT ![id] = @ \ {h}]

\* cleanup() that unregisters the subscriber and leaves the interval running
cleanup_KeepsTimer(subs, strs, h) ==
  [subscribers |-> IF strs[h].registered
                   THEN removeSubscriber(subs, strs[h].endpoint, h)
                   ELSE subs,
   streams |-> [strs EXCEPT ![h].registered = FALSE]]

\* cleanup() of handleSse: clear the heartbeat, unregister the subscriber
cleanup(subs, strs, h) ==
  [subscribers |-> IF strs[h].registered
                   THEN removeSubscriber(subs, strs[h].endpoint, h)
                   ELSE subs,
   streams |-> [strs EXCEPT ![h].heartbeat = FALSE, ![h].registered = FALSE]]

\* send that swallows the error of controller.enqueue
send_IgnoresFailure(subs, strs, h, frame) ==
  IF strs[h].open /\ ~strs[h].broken
  THEN [subscribers |-> subs, streams |-> [strs EXCEPT ![h].frames = Append(@, frame)]]
  ELSE [subscribers |-> subs, streams |-> strs]

\* send of handleSse: controller.enqueue, and cleanup() when it throws
send(subs, strs, h, frame) ==
  IF strs[h].open /\ ~strs[h].broken
  THEN [subscribers |-> subs, streams |-> [strs EXCEPT ![h].frames = Append(@, frame)]]
  ELSE cleanup(subs, strs, h)

\* subscriber.close of handleSse: cleanup(), then controller.close(), which
\* throws on a controller that is not readable any more
close(subs, strs, h) ==
  LET c == cleanup(subs, strs, h)
  IN [subscribers |-> c.subscribers,
      streams |-> IF strs[h].broken THEN c.streams
                  ELSE [c.streams EXCEPT ![h].open = FALSE]]

\* for (const subscriber of set) subscriber.send(body): in insertion order
RECURSIVE sendAll(_, _, _, _)
sendAll(subs, strs, hs, frame) ==
  IF hs = {} THEN [subscribers |-> subs, streams |-> strs]
  ELSE LET h == Min(hs)
           sent == send(subs, strs, h, frame)
       IN sendAll(sent.subscribers, sent.streams, hs \ {h}, frame)

\* broadcast that sends to the subscribers of every endpoint
broadcast_ToEveryone(subs, strs, id, frame) ==
  sendAll(subs, strs, UNION {subs[e] : e \in DOMAIN subs}, frame)

\* broadcast that gives up at the first subscriber whose delivery fails
broadcast_AbortsOnFailure(subs, strs, id, frame) ==
  LET hs == SubscribersOf(subs, id)
      dead == {h \in hs : ~(strs[h].open /\ ~strs[h].broken)}
  IN IF dead = {} THEN sendAll(subs, strs, hs, frame)
     ELSE LET sent == sendAll(subs, strs, {h \in hs : h < Min(dead)}, frame)
          IN cleanup(sent.subscribers, sent.streams, Min(dead))

\* broadcast(endpointId, payload): send to every subscriber of the endpoint;
\* send catches its own failure, so the catch of broadcast is never entered
broadcast(subs, strs, id, frame) == sendAll(subs, strs, SubscribersOf(subs, id), frame)

RECURSIVE closeAll(_, _, _)
closeAll(subs, strs, hs) ==
  IF hs = {} THEN [subscribers |-> subs, streams |-> strs]
  ELSE LET h == Min(hs)
           closed == close(subs, strs, h)
       IN closeAll(closed.subscribers, closed.streams, hs \ {h})

\* closeSubscribers that drops the registry entry and leaves the streams open
closeSubscribers_OnlyUnregisters(subs, strs, id) ==
  [subscribers |-> MapDelete(subs, id), streams |-> strs]

\* closeSubscribers(endpointId): close every subscriber, drop the entry
closeSubscribers(subs, strs, id) ==
  LET closed == closeAll(subs, strs, SubscribersOf(subs, id))
  IN [subscribers |-> MapDelete(closed.subscribers, id), streams |-> closed.streams]

\* handleSse that registers the subscriber and leaves the ready event to later
handleSse_NoReady(subs, strs, id, h) ==
  [subscribers |-> addSubscriber(subs, id, h),
   streams |-> MapSet(strs, h, [endpoint |-> id, open |-> TRUE, broken |-> FALSE,
                                registered |-> TRUE, heartbeat |-> TRUE,
                                frames |-> <<>>])]

\* handleSse(endpointId), start(controller): register, send the ready event,
\* set the heartbeat interval
handleSse(subs, strs, id, h) ==
  LET fresh == MapSet(strs, h, [endpoint |-> id, open |-> TRUE, broken |-> FALSE,
                                registered |-> TRUE, heartbeat |-> FALSE,
                                frames |-> <<>>])
      sent == send(addSubscriber(subs, id, h), fresh, h, ReadyFrame)
  IN [subscribers |-> sent.subscribers,
      streams |-> [sent.streams EXCEPT ![h].heartbeat = TRUE]]

\* ------------------------------------------------------------------- state
InitFresh ==
  /\ now = StartTime
  /\ foreignKeys \in BOOLEAN
  /\ endpoints = EmptyMap
  /\ requests = {}
  /\ seq = 0
  /\ lastCleanup = 0
  /\ generated = [ids |-> 0, keys |-> 0]
  /\ endpointCreateLimiter = EmptyMap
  /\ requestLimiter = EmptyMap
  /\ subscribers = EmptyMap
  /\ streams = EmptyMap
  /\ inflight = EmptyMap
  /\ limiter = EmptyMap
  /\ resp = NoResponse
  /\ swept = {}
  /\ grants = [create |-> EmptyMap, capture |-> EmptyMap, caller |-> EmptyMap]

\* how many clock steps, requests, streams and heartbeats a behaviour holds
Budget(ticks, reqs, strs, beats) ==
  [ticks |-> ticks, requests |-> reqs, streams |-> strs, beats |-> beats]

Init ==
  /\ InitFresh
  /\ maxRequests = MaxLimit
  /\ budget = Budget(MaxTicks, MaxRequests, MaxStreams, MaxBeats)

Spend(kind) == budget' = [budget EXCEPT ![kind] = @ - 1]

FreeSlot == Min(Slots \ DOMAIN inflight)
Suspend(locals) == inflight' = MapSet(inflight, FreeSlot, locals)
Resume(s) == inflight' = MapDelete(inflight, s)

Locals(kind, op, ip, row, key, arg, recreated, expired) ==
  [kind |-> kind, op |-> op, ip |-> ip, id |-> row.id, row |-> row, key |-> key,
   arg |-> arg, recreated |-> recreated, expired |-> expired]

\* ----------------------------------------------------------------- actions
Tick(d) ==
  /\ budget.ticks > 0
  /\ now + d <= Horizon
  /\ now' = now + d
  /\ Spend("ticks")
  /\ resp' = NoResponse
  /\ UNCHANGED <<foreignKeys, dbVars, generated, limiterVars, sseVars, inflight,
                 callerVars, grants>>

\* the setInterval callback that clears both limiter maps
LimiterTimer ==
  /\ \E ip \in DOMAIN endpointCreateLimiter \cup DOMAIN requestLimiter : TRUE
  /\ endpointCreateLimiter' = sweepLimiter(endpointCreateLimiter)
  /\ requestLimiter' = sweepLimiter(requestLimiter)
  /\ resp' = [op |-> "limiterTimer"]
  /\ UNCHANGED <<now, foreignKeys, dbVars, generated, sseVars, inflight, callerVars,
                 grants, budget>>

\* any request that only passes the onRequest hook (GET /api/version, a static file)
OtherRequest ==
  /\ budget.requests > 0
  /\ Spend("requests")
  /\ LET db == cleanupExpired
     IN /\ endpoints' = db.endpoints
        /\ requests' = db.requests
        /\ lastCleanup' = db.lastCleanup
        /\ swept' = db.swept
  /\ resp' = [op |-> "other", status |-> 200]
  /\ UNCHANGED <<now, foreignKeys, seq, generated, limiterVars, sseVars, inflight,
                 callerVars, grants>>

\* POST /api/endpoints
CreateEndpoint(ip, secure) ==
  /\ budget.requests > 0
  /\ Spend("requests")
  /\ secure => generated.keys < MaxKeys /\ Slots \ DOMAIN inflight # {}
  /\ LET db == cleanupExpired
         rc == checkRateLimit(endpointCreateLimiter, ip, RATE_LIMIT_MAX_ENDPOINT_CREATES)
         id == generateEndpointId
     IN /\ rc.allowed => generated.ids < NumGeneratedIds
        /\ requests' = db.requests
        /\ lastCleanup' = db.lastCleanup
        /\ swept' = db.swept
        /\ endpointCreateLimiter' = rc.limiter
        /\ grants' = [grants EXCEPT !.create = Granted(@, rc.limiter, ip, rc.allowed)]
        /\ IF ~rc.allowed
           THEN /\ resp' = [op |-> "create", status |-> 429, ip |-> ip,
                            retryAfter |-> retryAfter(rc.resetIn)]
                /\ endpoints' = db.endpoints
                /\ UNCHANGED <<generated, inflight>>
           ELSE IF ~secure
           THEN /\ endpoints' = MapSet(db.endpoints, id, EndpointRow(id, now, NULL))
                /\ generated' = [generated EXCEPT !.ids = @ + 1]
                /\ resp' = [op |-> "create", status |-> 200, ip |-> ip, id |-> id,
                            protected |-> FALSE, accessKey |-> NULL]
                /\ UNCHANGED inflight
           ELSE /\ endpoints' = db.endpoints
                /\ generated' = [ids |-> generated.ids + 1, keys |-> generated.keys + 1]
                /\ Suspend(Locals("create", "create", ip,
                                  EndpointRow(id, now, hashAccessKey(generateAccessKey)),
                                  generateAccessKey, 0, FALSE, FALSE))
                /\ resp' = [op |-> "createStart", slot |-> FreeSlot]
  /\ UNCHANGED <<now, foreignKeys, seq, requestLimiter, sseVars, callerVars>>

\* createEndpoint after await hashAccessKey: INSERT INTO endpoints
CreateResume(s) ==
  /\ s \in DOMAIN inflight
  /\ inflight[s].kind = "create"
  /\ LET p == inflight[s]
     IN IF p.id \in DOMAIN endpoints
        THEN /\ resp' = [op |-> "create", status |-> 500, ip |-> p.ip]
             /\ UNCHANGED endpoints
        ELSE /\ endpoints' = MapSet(endpoints, p.id, p.row)
             /\ resp' = [op |-> "create", status |-> 200, ip |-> p.ip, id |-> p.id,
                         protected |-> isEndpointProtected(p.row), accessKey |-> p.key]
  /\ Resume(s)
  /\ UNCHANGED <<now, foreignKeys, requests, seq, lastCleanup, swept, generated,
                 limiterVars, sseVars, callerVars, grants, budget>>

\* GET /inspect/:id
InspectorPage(id) ==
  /\ budget.requests > 0
  /\ Spend("requests")
  /\ LET db == cleanupExpired
         eps == ensureEndpoint(db.endpoints, id)
     IN /\ endpoints' = eps
        /\ requests' = db.requests
        /\ lastCleanup' = db.lastCleanup
        /\ swept' = db.swept \ {id}
        /\ resp' = [op |-> "inspect", status |-> 200, id |-> id, ensured |-> eps[id]]
  /\ UNCHANGED <<now, foreignKeys, seq, generated, limiterVars, sseVars, inflight,
                 callerVars, grants>>

\* the capture route calling ensureEndpoint before it looks at the rate check
CaptureStart_EnsureFirst(ip, id) ==
  /\ budget.requests > 0
  /\ Spend("requests")
  /\ Slots \ DOMAIN inflight # {}
  /\ LET db == cleanupExpired
         rc == checkRateLimit(requestLimiter, ip, RATE_LIMIT_MAX_REQUESTS)
         eps == ensureEndpoint(db.endpoints, id)
     IN /\ requests' = db.requests
        /\ lastCleanup' = db.lastCleanup
        /\ requestLimiter' = rc.limiter
        /\ grants' = [grants EXCEPT !.capture = Granted(@, rc.limiter, ip, rc.allowed)]
        /\ IF ~rc.allowed
           THEN /\ resp' = [op |-> "capture", status |-> 429, ip |-> ip, id |-> id,
                            retryAfter |-> retryAfter(rc.resetIn)]
                /\ endpoints' = eps
                /\ swept' = db.swept
                /\ UNCHANGED inflight
           ELSE /\ endpoints' = eps
                /\ swept' = db.swept \ {id}
                /\ Suspend(Locals("capture", "capture", ip, eps[id], NULL, 0,
                                  id \in db.swept /\ id \notin DOMAIN db.endpoints,
                                  id \in DOMAIN db.endpoints
                                    /\ db.endpoints[id].expires_at <= now))
                /\ resp' = [op |-> "captureStart", slot |-> FreeSlot]
  /\ UNCHANGED <<now, foreignKeys, seq, generated, endpointCreateLimiter, sseVars, callerVars>>

\* a capture route that turns away requests to a protected endpoint, which
\* carry no key
CaptureStart_Gated(ip, id) ==
  /\ budget.requests > 0
  /\ Spend("requests")
  /\ Slots \ DOMAIN inflight # {}
  /\ LET db == cleanupExpired
         rc == checkRateLimit(requestLimiter, ip, RATE_LIMIT_MAX_REQUESTS)
         eps == ensureEndpoint(db.endpoints, id)
     IN /\ requests' = db.requests
        /\ lastCleanup' = db.lastCleanup
        /\ requestLimiter' = rc.limiter
        /\ grants' = [grants EXCEPT !.capture = Granted(@, rc.limiter, ip, rc.allowed)]
        /\ IF ~rc.allowed
           THEN /\ resp' = [op |-> "capture", status |-> 429, ip |-> ip, id |-> id,
                            retryAfter |-> retryAfter(rc.resetIn)]
                /\ endpoints' = db.endpoints
                /\ swept' = db.swept
                /\ UNCHANGED inflight
           ELSE IF isEndpointProtected(eps[id])
           THEN /\ resp' = [op |-> "capture", status |-> 401, ip |-> ip, id |-> id]
                /\ endpoints' = eps
                /\ swept' = db.swept
                /\ UNCHANGED inflight
           ELSE /\ endpoints' = eps
                /\ swept' = db.swept \ {id}
                /\ Suspend(Locals("capture", "capture", ip, eps[id], NULL, 0,
                                  id \in db.swept /\ id \notin DOMAIN db.endpoints,
                                  id \in DOMAIN db.endpoints
                                    /\ db.endpoints[id].expires_at <= now))
                /\ resp' = [op |-> "captureStart", slot |-> FreeSlot, id |-> id,
                            ensured |-> eps[id]]
  /\ UNCHANGED <<now, foreignKeys, seq, generated, endpointCreateLimiter, sseVars, callerVars>>

\* ALL /:id and /:id/*: rate check, ensureEndpoint, then await req.arrayBuffer()
CaptureStart(ip, id) ==
  /\ budget.requests > 0
  /\ Spend("requests")
  /\ Slots \ DOMAIN inflight # {}
  /\ LET db == cleanupExpired
         rc == checkRateLimit(requestLimiter, ip, RATE_LIMIT_MAX_REQUESTS)
         eps == ensureEndpoint(db.endpoints, id)
     IN /\ requests' = db.requests
        /\ lastCleanup' = db.lastCleanup
        /\ requestLimiter' = rc.limiter
        /\ grants' = [grants EXCEPT !.capture = Granted(@, rc.limiter, ip, rc.allowed)]
        /\ IF ~rc.allowed
           THEN /\ resp' = [op |-> "capture", status |-> 429, ip |-> ip, id |-> id,
                            retryAfter |-> retryAfter(rc.resetIn)]
                /\ endpoints' = db.endpoints
                /\ swept' = db.swept
                /\ UNCHANGED inflight
           ELSE /\ endpoints' = eps
                /\ swept' = db.swept \ {id}
                /\ Suspend(Locals("capture", "capture", ip, eps[id], NULL, 0,
                                  id \in db.swept /\ id \notin DOMAIN db.endpoints,
                                  id \in DOMAIN db.endpoints
                                    /\ db.endpoints[id].expires_at <= now))
                /\ resp' = [op |-> "captureStart", slot |-> FreeSlot, id |-> id,
                            ensured |-> eps[id]]
  /\ UNCHANGED <<now, foreignKeys, seq, generated, endpointCreateLimiter, sseVars, callerVars>>

\* handleWebhookCapture after the body of request req is read: insert, refresh,
\* prune, broadcast
CaptureBody(s, req) ==
  /\ s \in DOMAIN inflight
  /\ inflight[s].kind = "capture"
  /\ LET p == inflight[s]
         id == p.row.id
         row == RequestRow(lastInsertRowid(seq, requests), id, req, p.ip, now)
         sent == broadcast(subscribers, streams, id,
                           [type |-> "request", arg |-> mapRequest(row)])
     IN IF foreignKeys /\ id \notin DOMAIN endpoints
        THEN \* FOREIGN KEY constraint failed: insert.run throws
             /\ resp' = [op |-> "capture", status |-> 500, ip |-> p.ip, id |-> id,
                         recreated |-> p.recreated, expired |-> p.expired,
                         immediate |-> (resp.op = "captureStart" /\ resp.slot = s)]
             /\ UNCHANGED <<endpoints, requests, seq, sseVars>>
        ELSE /\ seq' = row.id
             /\ endpoints' = refreshEndpointExpiration(endpoints, id)
             /\ requests' = pruneOldRequests(requests \cup {row}, id)
             /\ subscribers' = sent.subscribers
             /\ streams' = sent.streams
             /\ resp' = [op |-> "capture", status |-> 200, ip |-> p.ip, id |-> id,
                         requestId |-> row.id, ensured |-> p.row,
                         request |-> req, response |-> captureResponse(req),
                         recreated |-> p.recreated, expired |-> p.expired,
                         immediate |-> (resp.op = "captureStart" /\ resp.slot = s)]
  /\ Resume(s)
  /\ UNCHANGED <<now, foreignKeys, lastCleanup, swept, generated, limiterVars,
                 callerVars, grants, budget>>

CaptureFinish(s) == CaptureBody(s, PlainRequest)

\* ---------------------------------------------------------------- API routes
ApiOps == {"metadata", "filtered", "stream", "deleteRequest", "clearRequests",
           "deleteEndpoint"}

\* the part of an /api/endpoints/:id handler behind the access check, on tables
\* eps and reqs; endpoint is the row the handler read before the check
ApiBody(op, endpoint, via, arg, eps, reqs) ==
  LET id == endpoint.id
  IN CASE op = "metadata" ->
            /\ endpoints' = eps
            /\ requests' = reqs
            /\ resp' = [op |-> op, status |-> 200, id |-> id, via |-> via,
                        protected |-> isEndpointProtected(endpoint),
                        createdAt |-> endpoint.created_at,
                        expiresAt |-> endpoint.expires_at,
                        requests |-> {mapRequest(r) : r \in recentRequests(reqs, id)}]
            /\ UNCHANGED sseVars
       [] op = "filtered" ->
            /\ endpoints' = eps
            /\ requests' = reqs
            /\ resp' = [op |-> op, status |-> 200, id |-> id, via |-> via,
                        protected |-> isEndpointProtected(endpoint),
                        filter |-> arg,
                        requests |-> filterRequests({mapRequest(r) : r \in recentRequests(reqs, id)},
                                                    arg)]
            /\ UNCHANGED sseVars
       [] op = "stream" ->
            /\ endpoints' = eps
            /\ requests' = reqs
            /\ LET h == Cardinality(DOMAIN streams) + 1
                   sse == handleSse(subscribers, streams, id, h)
               IN /\ subscribers' = sse.subscribers
                  /\ streams' = sse.streams
                  /\ resp' = [op |-> op, status |-> 200, id |-> id, via |-> via,
                              protected |-> isEndpointProtected(endpoint), handle |-> h]
       [] op = "deleteRequest" ->
            /\ endpoints' = eps
            /\ IF selectRequest(reqs, id, arg) # {}
               THEN LET sent == broadcast(subscribers, streams, id,
                                          [type |-> "request_deleted", arg |-> arg])
                    IN /\ requests' = deleteRequestRow(reqs, id, arg)
                       /\ subscribers' = sent.subscribers
                       /\ streams' = sent.streams
                       /\ resp' = [op |-> op, status |-> 200, id |-> id, via |-> via,
                                   protected |-> isEndpointProtected(endpoint),
                                   requestId |-> arg]
               ELSE /\ requests' = reqs
                    /\ resp' = [op |-> op, status |-> 404, id |-> id, via |-> via,
                                protected |-> isEndpointProtected(endpoint), requestId |-> arg]
                    /\ UNCHANGED sseVars
       [] op = "clearRequests" ->
            LET cleared == clearRequestRows(reqs, id)
                sent == IF cleared.changes > 0
                        THEN broadcast(subscribers, streams, id,
                                       [type |-> "requests_cleared", arg |-> 0])
                        ELSE [subscribers |-> subscribers, streams |-> streams]
            IN /\ endpoints' = eps
               /\ requests' = cleared.requests
               /\ subscribers' = sent.subscribers
               /\ streams' = sent.streams
               /\ resp' = [op |-> op, status |-> 200, id |-> id, via |-> via,
                           protected |-> isEndpointProtected(endpoint),
                           deleted |-> cleared.changes]
       [] op = "deleteEndpoint" ->
            LET del == deleteEndpointRow(eps, reqs, id)
                sent == broadcast(subscribers, streams, id,
                                  [type |-> "endpoint_deleted", arg |-> 0])
                closed == closeSubscribers(sent.subscribers, sent.streams, id)
            IN /\ endpoints' = del.endpoints
               /\ requests' = del.requests
               /\ subscribers' = closed.subscribers
               /\ streams' = closed.streams
               /\ resp' = [op |-> op, status |-> 200, id |-> id, via |-> via,
                           protected |-> isEndpointProtected(endpoint)]

\* an /api/endpoints/:id handler up to the await of verifyAccessKey, or to its end
ApiRequest(op, id, queryKey, headerKey, arg) ==
  /\ budget.requests > 0
  /\ op = "stream" => Cardinality(DOMAIN streams) < budget.streams
  /\ Spend("requests")
  /\ LET db == cleanupExpired
         key == accessKeyOf(queryKey, headerKey)
         via == accessKeyVia(queryKey, headerKey)
     IN /\ lastCleanup' = db.lastCleanup
        /\ swept' = db.swept
        /\ IF id \notin DOMAIN db.endpoints
           THEN /\ resp' = [op |-> op, status |-> 404, id |-> id]
                /\ endpoints' = db.endpoints
                /\ requests' = db.requests
                /\ UNCHANGED <<sseVars, inflight>>
           ELSE IF isEndpointProtected(db.endpoints[id]) /\ key = NULL
           THEN /\ resp' = [op |-> op, status |-> 401, id |-> id, via |-> via,
                            protected |-> TRUE]
                /\ endpoints' = db.endpoints
                /\ requests' = db.requests
                /\ UNCHANGED <<sseVars, inflight>>
           ELSE IF isEndpointProtected(db.endpoints[id])
           THEN /\ Slots \ DOMAIN inflight # {}
                /\ Suspend(Locals("auth", op, 0, db.endpoints[id], key, arg, FALSE, FALSE)
                           @@ [via |-> via])
                /\ resp' = [op |-> "authStart", slot |-> FreeSlot]
                /\ endpoints' = db.endpoints
                /\ requests' = db.requests
                /\ UNCHANGED sseVars
           ELSE /\ ApiBody(op, db.endpoints[id], via, arg, db.endpoints, db.requests)
                /\ UNCHANGED inflight
  /\ UNCHANGED <<now, foreignKeys, seq, generated, limiterVars, callerVars, grants>>

\* the handler after await verifyAccessKey
ApiResume(s) ==
  /\ s \in DOMAIN inflight
  /\ inflight[s].kind = "auth"
  /\ inflight[s].op = "stream" => Cardinality(DOMAIN streams) < budget.streams
  /\ LET p == inflight[s]
     IN IF ~verifyAccessKey(p.key, p.row.password_hash)
        THEN /\ resp' = [op |-> p.op, status |-> 401, id |-> p.id, via |-> p.via,
                         protected |-> TRUE]
             /\ UNCHANGED <<endpoints, requests, sseVars>>
        ELSE ApiBody(p.op, p.row, p.via, p.arg, endpoints, requests)
  /\ Resume(s)
  /\ UNCHANGED <<now, foreignKeys, seq, lastCleanup, swept, generated, limiterVars,
                 callerVars, grants, budget>>

\* the routes, called with the access key in the query string
GetMetadata(id, key) == ApiRequest("metadata", id, key, NULL, 0)
OpenStream(id, key) == ApiRequest("stream", id, key, NULL, 0)
DeleteRequest(id, key, requestId) == ApiRequest("deleteRequest", id, key, NULL, requestId)
ClearRequests(id, key) == ApiRequest("clearRequests", id, key, NULL, 0)
DeleteEndpoint(id, key) == ApiRequest("deleteEndpoint", id, key, NULL, 0)

\* ReadableStream cancel(): the client went away
StreamCancel(h) ==
  /\ h \in DOMAIN streams
  /\ streams[h].open /\ ~streams[h].broken
  /\ LET c == cleanup(subscribers, streams, h)
     IN /\ subscribers' = c.subscribers
        /\ streams' = [c.streams EXCEPT ![h].open = FALSE]
  /\ resp' = [op |-> "streamCancel", handle |-> h]
  /\ UNCHANGED <<now, foreignKeys, dbVars, generated, limiterVars, inflight, callerVars,
                 grants, budget>>

\* the runtime loses the connection of a stream without a cancel(): from now on
\* controller.enqueue throws
StreamBreak(h) ==
  /\ h \in DOMAIN streams
  /\ streams[h].open /\ ~streams[h].broken
  /\ streams' = [streams EXCEPT ![h].broken = TRUE]
  /\ resp' = [op |-> "streamBreak", handle |-> h]
  /\ UNCHANGED <<now, foreignKeys, dbVars, generated, limiterVars, subscribers, inflight,
                 callerVars, grants, budget>>

\* the heartbeat interval of a stream fires: send(":keep-alive")
Heartbeat(h) ==
  /\ h \in DOMAIN streams
  /\ streams[h].heartbeat
  /\ budget.beats > 0
  /\ Spend("beats")
  /\ LET sent == send(subscribers, streams, h, KeepAliveFrame)
     IN /\ subscribers' = sent.subscribers
        /\ streams' = sent.streams
  /\ resp' = [op |-> "heartbeat", handle |-> h]
  /\ UNCHANGED <<now, foreignKeys, dbVars, generated, limiterVars, inflight, callerVars,
                 grants>>

\* the heartbeat interval of a stream whose controller.enqueue throws fires; the
\* interval keeps firing every 15 s for as long as it has not been cleared
FailedHeartbeat(h) ==
  /\ h \in DOMAIN streams
  /\ streams[h].heartbeat
  /\ streams[h].broken
  /\ LET sent == send(subscribers, streams, h, KeepAliveFrame)
     IN /\ subscribers' = sent.subscribers
        /\ streams' = sent.streams
  /\ resp' = [op |-> "heartbeat", handle |-> h]
  /\ UNCHANGED <<now, foreignKeys, dbVars, generated, limiterVars, inflight, callerVars,
                 grants, budget>>

\* the request ids a client may name in a single delete
RequestIds == {r.id : r \in requests} \cup {seq + 1}

\* a caller of checkRateLimit with a Map of its own
CallCheckRateLimit(ip) ==
  /\ budget.requests > 0
  /\ Spend("requests")
  /\ LET rc == checkRateLimit(limiter, ip, maxRequests)
     IN /\ limiter' = rc.limiter
        /\ grants' = [grants EXCEPT !.caller = Granted(@, rc.limiter, ip, rc.allowed)]
        /\ resp' = [op |-> "checkRateLimit", ip |-> ip, allowed |-> rc.allowed,
                    remaining |-> rc.remaining, resetIn |-> rc.resetIn,
                    retryAfter |-> retryAfter(rc.resetIn),
                    before |-> IF ip \in DOMAIN limiter THEN limiter[ip].count ELSE 0,
                    lapsed |-> ip \in DOMAIN limiter /\ now > limiter[ip].resetTime]
  /\ UNCHANGED <<now, foreignKeys, dbVars, generated, limiterVars, sseVars, inflight,
                 maxRequests>>

\* ----------------------------------------------------------- specifications
\* every handler, one client address, a few requests
Next ==
  \/ \E d \in TickSteps : Tick(d)
  \/ LimiterTimer
  \/ OtherRequest
  \/ \E secure \in BOOLEAN : CreateEndpoint(1, secure)
  \/ \E s \in Slots : CreateResume(s)
  \/ \E id \in KnownIds : InspectorPage(id)
  \/ \E id \in KnownIds : CaptureStart(1, id)
  \/ \E s \in Slots : CaptureFinish(s)
  \/ \E id \in KnownIds, key \in Keys : GetMetadata(id, key)
  \/ \E id \in KnownIds, key \in Keys : OpenStream(id, key)
  \/ \E id \in KnownIds, key \in Keys, r \in RequestIds : DeleteRequest(id, key, r)
  \/ \E id \in KnownIds, key \in Keys : ClearRequests(id, key)
  \/ \E id \in KnownIds, key \in Keys : DeleteEndpoint(id, key)
  \/ \E s \in Slots : ApiResume(s)
  \/ \E h \in Handles : StreamCancel(h)
  \/ \E h \in Handles : StreamBreak(h)
  \/ \E h \in Handles : Heartbeat(h)

Spec == Init /\ [][Next]_vars

\* checkRateLimit alone, on a caller's Map, for each maxRequests up to MaxLimit
InitLimiter ==
  /\ InitFresh
  /\ maxRequests \in 1..MaxLimit
  /\ budget = Budget(MaxTicks, MaxCalls, MaxStreams, 0)

NextLimiter ==
  \/ \E d \in WindowSteps : Tick(d)
  \/ \E ip \in Ips : CallCheckRateLimit(ip)

SpecLimiter == InitLimiter /\ [][NextLimiter]_vars

\* endpoint creation alone, from one client address, across windows
InitCreate ==
  /\ InitFresh
  /\ maxRequests = MaxLimit
  /\ budget = Budget(MaxTicks, MaxCreates, MaxStreams, 0)

NextCreate ==
  \/ Tick(RATE_LIMIT_WINDOW_MS)
  \/ LimiterTimer
  \/ \E secure \in BOOLEAN : CreateEndpoint(1, secure)
  \/ \E s \in Slots : CreateResume(s)

SpecCreate == InitCreate /\ [][NextCreate]_vars

\* the limiter timer among endpoint creations and captures from two client
\* addresses, with the clock stepping within, onto and past the end of a window
InitTimer ==
  /\ InitFresh
  /\ maxRequests = MaxLimit
  /\ budget = Budget(MaxTimerTicks, MaxTimerRequests, 0, 0)

NextTimer ==
  \/ \E d \in WindowSteps \cup CaptureSteps : Tick(d)
  \/ LimiterTimer
  \/ \E ip \in Ips : CreateEndpoint(ip, FALSE)
  \/ \E ip \in Ips : CaptureStart(ip, 1)
  \/ \E s \in Slots : CaptureFinish(s)

SpecTimer == InitTimer /\ [][NextTimer]_vars

\* captures and inspector accesses racing on ids never seen before
InitRace ==
  /\ InitFresh
  /\ maxRequests = MaxLimit
  /\ budget = Budget(MaxTicks, MaxRaceRequests, MaxStreams, 0)

NextRace ==
  \/ Tick(1)
  \/ \E id \in ClientIds : InspectorPage(id)
  \/ \E id \in ClientIds : CaptureStart(1, id)
  \/ \E s \in Slots, req \in CaptureRequests : CaptureBody(s, req)

SpecRace == InitRace /\ [][NextRace]_vars

\* the state after POST /api/endpoints with secure from address 1, which returned
\* the id ProtectedId and the key 1, and one capture from address 1 to each of
\* the endpoints 1 and ProtectedId, all within the millisecond StartTime, one
\* millisecond ago
ProtectedId == NumClientIds + 1
TwoEndpoints == {1, ProtectedId}

InitProtected ==
  /\ now = StartTime + 1
  /\ foreignKeys \in BOOLEAN
  /\ endpoints = MapSet(MapSet(EmptyMap, 1, EndpointRow(1, StartTime, NULL)),
                        ProtectedId, EndpointRow(ProtectedId, StartTime, hashAccessKey(1)))
  /\ requests = {RequestRow(1, 1, PlainRequest, 1, StartTime),
                 RequestRow(2, ProtectedId, PlainRequest, 1, StartTime)}
  /\ seq = 2
  /\ lastCleanup = StartTime
  /\ generated = [ids |-> 1, keys |-> 1]
  /\ endpointCreateLimiter =
       MapSet(EmptyMap, 1, [count |-> 1, resetTime |-> StartTime + RATE_LIMIT_WINDOW_MS])
  /\ requestLimiter =
       MapSet(EmptyMap, 1, [count |-> 2, resetTime |-> StartTime + RATE_LIMIT_WINDOW_MS])
  /\ inflight = EmptyMap
  /\ limiter = EmptyMap
  /\ maxRequests = MaxLimit
  /\ resp = NoResponse
  /\ swept = {}
  /\ grants = [create |-> MapSet(EmptyMap, 1, [deadline |-> StartTime + RATE_LIMIT_WINDOW_MS,
                                               n |-> 1]),
               capture |-> MapSet(EmptyMap, 1, [deadline |-> StartTime + RATE_LIMIT_WINDOW_MS,
                                                n |-> 2]),
               caller |-> EmptyMap]

InitAccess ==
  /\ InitProtected
  /\ subscribers = EmptyMap
  /\ streams = EmptyMap
  /\ budget = Budget(0, MaxAccessRequests, MaxStreams, 0)

\* the last parameter of each API route
ApiArgs(op) ==
  CASE op = "filtered" -> {NoFilter, [NoFilter EXCEPT !.method = "post"],
                           [NoFilter EXCEPT !.limit = "1"]}
    [] op = "deleteRequest" -> RequestIds
    [] OTHER -> {0}

\* every API route with and without keys, in the query string and in the
\* header, and captures, against a protected and an unprotected endpoint
NextAccess ==
  \/ \E op \in ApiOps, id \in TwoEndpoints, queryKey \in TriedKeys, headerKey \in TriedKeys :
       \E arg \in ApiArgs(op) : ApiRequest(op, id, queryKey, headerKey, arg)
  \/ \E s \in Slots : ApiResume(s)
  \/ \E id \in TwoEndpoints : CaptureStart(1, id)
  \/ \E s \in Slots : CaptureFinish(s)

SpecAccess == InitAccess /\ [][NextAccess]_vars

\* the expiration sweep: requests of every kind that passes onRequest, captures
\* and inspector accesses to the two endpoints, and the clock up to and past
\* their expiration
InitSweep ==
  /\ InitProtected
  /\ subscribers = EmptyMap
  /\ streams = EmptyMap
  /\ budget = Budget(MaxSweepTicks, MaxSweepRequests, 0, 0)

NextSweep ==
  \/ \E d \in SweepSteps : Tick(d)
  \/ OtherRequest
  \/ \E id \in TwoEndpoints : InspectorPage(id)
  \/ \E id \in TwoEndpoints : CaptureStart(1, id)
  \/ \E s \in Slots : CaptureFinish(s)

SpecSweep == InitSweep /\ [][NextSweep]_vars

\* a request the route turns away for its :id, after the onRequest hook
Rejected(route, id, status) ==
  /\ budget.requests > 0
  /\ Spend("requests")
  /\ LET db == cleanupExpired
     IN /\ endpoints' = db.endpoints
        /\ requests' = db.requests
        /\ lastCleanup' = db.lastCleanup
        /\ swept' = db.swept
  /\ resp' = [op |-> "rejected", route |-> route, id |-> id, status |-> status]
  /\ UNCHANGED <<now, foreignKeys, seq, generated, limiterVars, sseVars, inflight,
                 callerVars, grants>>

\* GET /inspect/:id with its params schema
InspectRoute(id) ==
  IF ~matchesIdPattern(id) THEN Rejected("inspect", id, 422)
  ELSE IF ~isValidEndpointId(id) THEN Rejected("inspect", id, 400)
  ELSE InspectorPage(id)

\* ALL /:id: an invalid id falls through to a static page or 404
CaptureRoute(ip, id) ==
  IF ~isValidEndpointId(id) THEN \E status \in {200, 404} : Rejected("capture", id, status)
  ELSE CaptureStart(ip, id)

\* every /api/endpoints/:id route with its params schema
ApiRoute(op, id, queryKey, headerKey, arg) ==
  IF ~matchesIdPattern(id) THEN Rejected(op, id, 422)
  ELSE IF ~isValidEndpointId(id) THEN Rejected(op, id, 400)
  ELSE ApiRequest(op, id, queryKey, headerKey, arg)

\* the ids clients put in a path
RoutedIds == {1, UpperCaseId, InvalidId}

\* every route that takes an :id, with well-formed and malformed ids, and
\* explicit creates
InitRouting ==
  /\ InitProtected
  /\ subscribers = EmptyMap
  /\ streams = EmptyMap
  /\ budget = Budget(MaxRoutingTicks, MaxRoutingRequests, MaxStreams, 0)

NextRouting ==
  \/ \E d \in ExpirySteps : Tick(d)
  \/ \E id \in RoutedIds : InspectRoute(id)
  \/ \E id \in RoutedIds : CaptureRoute(1, id)
  \/ \E s \in Slots : CaptureFinish(s)
  \/ \E op \in ApiOps, id \in RoutedIds :
       \E arg \in ApiArgs(op) : ApiRoute(op, id, NULL, NULL, arg)
  \/ CreateEndpoint(1, FALSE)

SpecRouting == InitRouting /\ [][NextRouting]_vars

\* creates and captures from two client addresses within one window, after
\* address 1 has created all endpoints of its quota but one
WarmCreates == RATE_LIMIT_MAX_ENDPOINT_CREATES - 1
InitQuota ==
  /\ now = StartTime
  /\ foreignKeys \in BOOLEAN
  /\ endpoints = [id \in (NumClientIds + 1)..(NumClientIds + WarmCreates) |->
                    EndpointRow(id, StartTime, NULL)]
  /\ requests = {}
  /\ seq = 0
  /\ lastCleanup = StartTime
  /\ generated = [ids |-> WarmCreates, keys |-> 0]
  /\ endpointCreateLimiter =
       MapSet(EmptyMap, 1, [count |-> WarmCreates, resetTime |-> StartTime + RATE_LIMIT_WINDOW_MS])
  /\ requestLimiter = EmptyMap
  /\ subscribers = EmptyMap
  /\ streams = EmptyMap
  /\ inflight = EmptyMap
  /\ limiter = EmptyMap
  /\ maxRequests = MaxLimit
  /\ resp = NoResponse
  /\ swept = {}
  /\ grants = [create |-> MapSet(EmptyMap, 1, [deadline |-> StartTime + RATE_LIMIT_WINDOW_MS,
                                               n |-> WarmCreates]),
               capture |-> EmptyMap,
               caller |-> EmptyMap]
  /\ budget = Budget(0, MaxQuotaRequests, 0, 0)

NextQuota ==
  \/ \E ip \in Ips : CreateEndpoint(ip, FALSE)
  \/ \E ip \in Ips : CaptureStart(ip, 1)
  \/ \E s \in Slots : CaptureFinish(s)

SpecQuota == InitQuota /\ [][NextQuota]_vars

\* captures with bodies of no byte, a few bytes, and around and above the cap
BodyRequests ==
  {[PlainRequest EXCEPT !.bytes = n, !.text = IF n = 0 THEN "" ELSE "xxx..."] :
     n \in {0, 1, 100, 512 * 1024 - 1, 512 * 1024, 512 * 1024 + 1, 600 * 1024}}

InitBody ==
  /\ InitProtected
  /\ subscribers = EmptyMap
  /\ streams = EmptyMap
  /\ budget = Budget(0, MaxBodyRequests, 0, 0)

NextBody ==
  \/ \E id \in TwoEndpoints : CaptureStart(1, id)
  \/ \E s \in Slots, req \in BodyRequests : CaptureBody(s, req)

SpecBody == InitBody /\ [][NextBody]_vars

\* filtered reads of an endpoint that holds four different requests, with
\* combinations of filters, and captures
FilterValues ==
  [method |-> "post", path |-> "hook", body |-> "status", body_key |-> "user_id",
   body_value |-> "status:completed", query_key |-> "rand", query_value |-> "rand:24052",
   header_key |-> "Content-Type", header_value |-> "content-type:json"]
\* up to MaxFilters filters at once, or all of them, each with every limit,
\* and key:value filters without a key
FilterArgs ==
  {[name \in DOMAIN NoFilter |->
      IF name = "limit" THEN l ELSE IF name \in set THEN FilterValues[name] ELSE ""] :
     set \in {x \in SUBSET DOMAIN FilterValues :
                Cardinality(x) <= MaxFilters \/ x = DOMAIN FilterValues},
     l \in {"", "1", "2", "2abc", "0", "-1", "abc"}}
  \cup {[NoFilter EXCEPT !.body_value = v] : v \in {"nocolon", ":completed"}}

InitFilter ==
  /\ now = StartTime + 1
  /\ foreignKeys \in BOOLEAN
  /\ endpoints = MapSet(EmptyMap, 1, EndpointRow(1, StartTime, NULL))
  /\ requests = {RequestRow(1, 1, UserRequest, 1, StartTime),
                 RequestRow(2, 1, StatusRequest, 1, StartTime),
                 RequestRow(3, 1, NoteRequest, 1, StartTime),
                 RequestRow(4, 1, PlainRequest, 1, StartTime)}
  /\ seq = 4
  /\ lastCleanup = StartTime
  /\ generated = [ids |-> 0, keys |-> 0]
  /\ endpointCreateLimiter = EmptyMap
  /\ requestLimiter =
       MapSet(EmptyMap, 1, [count |-> 4, resetTime |-> StartTime + RATE_LIMIT_WINDOW_MS])
  /\ subscribers = EmptyMap
  /\ streams = EmptyMap
  /\ inflight = EmptyMap
  /\ limiter = EmptyMap
  /\ maxRequests = MaxLimit
  /\ resp = NoResponse
  /\ swept = {}
  /\ grants = [create |-> EmptyMap,
               capture |-> MapSet(EmptyMap, 1, [deadline |-> StartTime + RATE_LIMIT_WINDOW_MS,
                                                n |-> 4]),
               caller |-> EmptyMap]
  /\ budget = Budget(0, MaxFilterRequests, 0, 0)

NextFilter ==
  \/ \E arg \in FilterArgs : ApiRequest("filtered", 1, NULL, NULL, arg)
  \/ ApiRequest("metadata", 1, NULL, NULL, 0)
  \/ CaptureStart(1, 1)
  \/ \E s \in Slots, req \in {UserRequest, StatusRequest, NoteRequest, PlainRequest} : CaptureBody(s, req)

SpecFilter == InitFilter /\ [][NextFilter]_vars

\* the life of a protected endpoint that holds a request: reads with and
\* without its key, its delete, its expiry and sweep, and captures and inspector
\* visits that create it again
InitPrivacy ==
  /\ InitProtected
  /\ subscribers = EmptyMap
  /\ streams = EmptyMap
  /\ budget = Budget(MaxPrivacyTicks, MaxPrivacyRequests, MaxStreams, 0)

NextPrivacy ==
  \/ \E d \in ExpirySteps : Tick(d)
  \/ OtherRequest
  \/ \E key \in HolderKeys : GetMetadata(ProtectedId, key)
  \/ \E key \in HolderKeys : ApiRequest("filtered", ProtectedId, key, NULL, NoFilter)
  \/ \E key \in HolderKeys : OpenStream(ProtectedId, key)
  \/ \E key \in HolderKeys : DeleteEndpoint(ProtectedId, key)
  \/ \E s \in Slots : ApiResume(s)
  \/ InspectorPage(ProtectedId)
  \/ CaptureStart(1, ProtectedId)
  \/ \E s \in Slots : CaptureFinish(s)

SpecPrivacy == InitPrivacy /\ [][NextPrivacy]_vars

\* streams that lose their connection while the process keeps running: one
\* subscriber of endpoint 1 at the start, further subscribers, captures that
\* broadcast, and the heartbeat intervals
FailureHandles == 1..(MaxFailureStreams + 1)

InitFailure ==
  /\ InitProtected
  /\ LET sse == handleSse(EmptyMap, EmptyMap, 1, 1)
     IN /\ subscribers = sse.subscribers
        /\ streams = sse.streams
  /\ budget = Budget(0, MaxFailureRequests, MaxFailureStreams + 1, MaxFailureBeats)

NextFailure ==
  \/ \E id \in TwoEndpoints : OpenStream(id, 1)
  \/ \E s \in Slots : ApiResume(s)
  \/ \E h \in DOMAIN streams : StreamCancel(h)
  \/ \E h \in DOMAIN streams : StreamBreak(h)
  \/ \E h \in DOMAIN streams : ~streams[h].broken /\ Heartbeat(h)
  \/ \E h \in DOMAIN streams : FailedHeartbeat(h)
  \/ \E id \in TwoEndpoints : CaptureStart(1, id)
  \/ \E s \in Slots : CaptureBody(s, PlainRequest)

\* setInterval keeps calling the heartbeat callback until clearInterval
SpecFailure ==
  /\ InitFailure
  /\ [][NextFailure]_vars
  /\ \A h \in FailureHandles : WF_vars(FailedHeartbeat(h))

\* captures of plain, browser and Event Grid validation requests
InitHandshake ==
  /\ InitProtected
  /\ subscribers = EmptyMap
  /\ streams = EmptyMap
  /\ budget = Budget(0, MaxHandshakeRequests, 0, 0)

NextHandshake ==
  \/ \E id \in TwoEndpoints : CaptureStart(1, id)
  \/ \E s \in Slots, req \in {PlainRequest, BrowserRequest, ValidationRequest} : CaptureBody(s, req)

SpecHandshake == InitHandshake /\ [][NextHandshake]_vars

\* live streams of a protected and an unprotected endpoint: subscribing,
\* client disconnects, lost connections, heartbeats, and every handler that
\* broadcasts; at the start endpoint 1 has one subscriber
InitStream ==
  /\ InitProtected
  /\ LET sse == handleSse(EmptyMap, EmptyMap, 1, 1)
     IN /\ subscribers = sse.subscribers
        /\ streams = sse.streams
  /\ budget = Budget(0, MaxStreamRequests, MaxSubscriptions, MaxBeats)

NextStream ==
  \/ \E id \in TwoEndpoints, key \in HolderKeys : OpenStream(id, key)
  \/ \E s \in Slots : ApiResume(s)
  \/ \E h \in DOMAIN streams : StreamCancel(h)
  \/ \E h \in DOMAIN streams : StreamBreak(h)
  \/ \E h \in DOMAIN streams : Heartbeat(h)
  \/ \E id \in TwoEndpoints : CaptureStart(1, id)
  \/ \E s \in Slots, req \in CaptureRequests : CaptureBody(s, req)
  \/ \E id \in TwoEndpoints, key \in HolderKeys, r \in RequestIds : DeleteRequest(id, key, r)
  \/ \E id \in TwoEndpoints, key \in HolderKeys : ClearRequests(id, key)
  \/ \E id \in TwoEndpoints, key \in HolderKeys : DeleteEndpoint(id, key)

SpecStream == InitStream /\ [][NextStream]_vars

\* the state after WarmRows captures from address 1 against endpoint 1, all
\* within the millisecond StartTime
InitWarm ==
  /\ now = StartTime
  /\ foreignKeys \in BOOLEAN
  /\ endpoints = MapSet(EmptyMap, 1, EndpointRow(1, StartTime, NULL))
  /\ requests = {RequestRow(i, 1, PlainRequest, 1, StartTime) : i \in 1..WarmRows}
  /\ seq = WarmRows
  /\ lastCleanup = StartTime
  /\ generated = [ids |-> 0, keys |-> 0]
  /\ endpointCreateLimiter = EmptyMap
  /\ requestLimiter =
       MapSet(EmptyMap, 1, [count |-> WarmRows, resetTime |-> StartTime + RATE_LIMIT_WINDOW_MS])
  /\ subscribers = EmptyMap
  /\ streams = EmptyMap
  /\ inflight = EmptyMap
  /\ limiter = EmptyMap
  /\ maxRequests = MaxLimit
  /\ resp = NoResponse
  /\ swept = {}
  /\ grants = [create |-> EmptyMap,
               capture |-> MapSet(EmptyMap, 1, [deadline |-> StartTime + RATE_LIMIT_WINDOW_MS,
                                                n |-> WarmRows]),
               caller |-> EmptyMap]
  /\ budget = Budget(MaxTicks, MaxWarmRequests, MaxStreams, 0)

\* captures alone, from two client addresses against endpoint 1, past the
\* retention cap
NextCapture ==
  \/ \E d \in CaptureSteps : Tick(d)
  \/ \E ip \in Ips : CaptureStart(ip, 1)
  \/ \E s \in Slots : CaptureFinish(s)

SpecCapture == InitWarm /\ [][NextCapture]_vars

\* captures, deletions of the oldest and the newest stored request, streams and
\* sweeps around the retention cap of endpoint 1
NextRetention ==
  \/ \E d \in ExpirySteps : Tick(d)
  \/ OtherRequest
  \/ \E ip \in Ips : CaptureStart(ip, 1)
  \/ \E s \in Slots : CaptureFinish(s)
  \/ OpenStream(1, NULL)
  \/ \E r \in {i \in {q.id : q \in requests} :
                 (\A q \in requests : q.id <= i) \/ (\A q \in requests : q.id >= i)} :
       DeleteRequest(1, NULL, r)
  \/ ClearRequests(1, NULL)
  \/ DeleteEndpoint(1, NULL)
  \/ \E h \in Handles : StreamCancel(h)

SpecRetention == InitWarm /\ [][NextRetention]_vars

\* ------------------------------------------------------ claims: rate limiter
\* C3: for any key and any maxRequests >= 1, at most maxRequests calls are
\* allowed under one reset deadline, a blocked call returns remaining = 0, and
\* the stored counter never exceeds maxRequests.
C3_WindowCap ==
  /\ \A ip \in DOMAIN grants.caller : grants.caller[ip].n <= maxRequests
  /\ \A ip \in DOMAIN limiter : limiter[ip].count <= maxRequests
  /\ (resp.op = "checkRateLimit" /\ ~resp.allowed) =>
       /\ resp.remaining = 0
       /\ grants.caller[resp.ip].n = maxRequests
       /\ now <= grants.caller[resp.ip].deadline

\* a call blocked after maxRequests = MaxLimit calls were allowed in the window
C3_Witness ==
  /\ resp.op = "checkRateLimit"
  /\ ~resp.allowed
  /\ maxRequests = MaxLimit
  /\ grants.caller[resp.ip].n = MaxLimit

\* C4: once a key's reset deadline has passed, the next call for the key is
\* allowed whatever the earlier count, stores count 1 with the deadline
\* now + 60 seconds, and returns remaining = maxRequests - 1.
C4_LazyReset ==
  (resp.op = "checkRateLimit" /\ resp.lapsed) =>
    /\ resp.allowed
    /\ limiter[resp.ip] = [count |-> 1, resetTime |-> now + 60000]
    /\ resp.remaining = maxRequests - 1
    /\ resp.resetIn = 60000

\* a call after the deadline of a key whose window was used up
C4_Witness ==
  /\ resp.op = "checkRateLimit"
  /\ resp.lapsed
  /\ resp.before = maxRequests
  /\ resp.allowed

\* C5: every blocked call returns 0 < resetIn <= 60000, so that the Retry-After
\* value ceil(resetIn / 1000) is between 1 and 60.
C5_RetryAfterPositive ==
  (resp.op = "checkRateLimit" /\ ~resp.allowed) =>
    /\ resp.resetIn > 0
    /\ resp.resetIn <= 60000
    /\ resp.retryAfter \in 1..60

\* C6: from one IP within one window the first 10 create-endpoint calls each
\* succeed and create one endpoint row, the 11th is rejected with 429 and
\* creates no endpoint row, and a create call after the window succeeds again:
\* a create call is rejected only when 10 calls of its IP were let through
\* under a deadline that has not passed, never more than 10 are let through
\* under one deadline, and every call let through ends with one new row.
C6_CreateLimit ==
  [][/\ \A ip \in DOMAIN grants'.create : grants'.create[ip].n <= 10
     /\ (resp'.op = "create" /\ resp'.status = 429) =>
          /\ DOMAIN endpoints' \subseteq DOMAIN endpoints
          /\ inflight' = inflight
          /\ grants.create[resp'.ip].n = 10
          /\ now <= grants.create[resp'.ip].deadline
     /\ (resp'.op = "create" /\ resp'.status # 429) =>
          /\ resp'.status = 200
          /\ resp'.id \notin DOMAIN endpoints
          /\ DOMAIN endpoints' \ DOMAIN endpoints = {resp'.id}
     /\ resp'.op = "createStart" =>
          /\ resp'.slot \in DOMAIN inflight' \ DOMAIN inflight
          /\ inflight'[resp'.slot].kind = "create"]_vars

\* one IP: 10 creates succeeded, the 11th was rejected, and the 12th, made
\* after the window, has just succeeded
C6_Witness ==
  /\ resp.op = "create"
  /\ resp.status = 200
  /\ budget.requests = MaxCreates - 12
  /\ DOMAIN grants.create = {resp.ip}
  /\ grants.create[resp.ip].n = 1
  /\ Cardinality(DOMAIN endpoints) = 11
  /\ inflight = EmptyMap

\* ------------------------------------------------- claims: endpoint lifetime
\* C8: after a successful delete-endpoint operation on endpoint E no request
\* row of E remains stored and E has no endpoint row, so that a metadata read
\* of E returns not-found.
C8_DeleteCascades ==
  (resp.op = "deleteEndpoint" /\ resp.status = 200) =>
    /\ RowsOf(requests, resp.id) = {}
    /\ resp.id \notin DOMAIN endpoints

\* C9: after an endpoint has expired and the sweep has removed it, a capture
\* against the same id succeeds and leaves an endpoint row with a new
\* createdAt, no secret hash, expiresAt = now + 7 days and exactly the one
\* newly captured request.
C9_RecreatedAfterSweep ==
  (resp.op = "capture" /\ resp.status # 429 /\ resp.recreated /\ resp.immediate) =>
    /\ resp.status = 200
    /\ resp.id \in DOMAIN endpoints
    /\ endpoints[resp.id].created_at = now
    /\ endpoints[resp.id].password_hash = NULL
    /\ endpoints[resp.id].expires_at = now + 7 * 24 * 60 * 60 * 1000
    /\ {r.id : r \in RowsOf(requests, resp.id)} = {resp.requestId}

\* C10: a capture against an id whose endpoint's expiresAt has passed results
\* in a brand-new unprotected endpoint (new createdAt, no secret hash, none of
\* the earlier requests) whether or not the sweep has removed the expired row.
C10_ExpiredIsRecreated ==
  (resp.op = "capture" /\ resp.status # 429 /\ resp.immediate
     /\ (resp.expired \/ resp.recreated)) =>
    /\ resp.status = 200
    /\ resp.id \in DOMAIN endpoints
    /\ endpoints[resp.id].created_at = now
    /\ endpoints[resp.id].password_hash = NULL
    /\ {r.id : r \in RowsOf(requests, resp.id)} = {resp.requestId}

\* ------------------------------------------------------- claims: retention
\* C1: in every state between handler steps, after any sequence of captures,
\* single-request deletes, bulk clears, endpoint deletes and sweeps, no endpoint
\* id owns more than 100 stored request rows.
C1_AtMostCapRows ==
  \A id \in {r.endpoint_id : r \in requests} : Cardinality(RowsOf(requests, id)) <= 100

\* a capture has just stored a row beyond the 100th and the endpoint holds 100
C1_Witness ==
  /\ resp.op = "capture"
  /\ resp.status = 200
  /\ resp.requestId > 100
  /\ Cardinality(RowsOf(requests, resp.id)) = 100

\* C2: after N > 100 successful captures against one endpoint with no deletes
\* in between, exactly 100 request rows remain for it, the 100 with the highest
\* ids, and every pruned row has a lower id than every kept row. Under
\* SpecCapture nothing is deleted and every capture is against endpoint 1, so
\* N = seq and the ids inserted are 1..seq.
C2_NewestKept ==
  LET kept == {r.id : r \in RowsOf(requests, 1)}
  IN /\ seq > 100 =>
          /\ Cardinality(RowsOf(requests, 1)) = 100
          /\ kept = (seq - 99)..seq
          /\ \A pruned \in (1..seq) \ kept : \A k \in kept : pruned < k
     /\ seq <= 100 => kept = 1..seq

\* the 102nd capture has finished: rows 1 and 2 were pruned
C2_Witness ==
  /\ seq = 102
  /\ resp.op = "capture"
  /\ resp.status = 200
  /\ resp.requestId = 102
  /\ inflight = EmptyMap

\* C7: a capture rejected by the rate limiter (the 101st from one IP in a
\* window) stores no request row, creates no endpoint, leaves the expiresAt of
\* every endpoint unchanged and broadcasts no event to any subscriber. (The
\* sweep that runs ahead of every request may still remove expired rows.)
C7_RejectedCaptureIsInert ==
  [][(resp'.op = "capture" /\ resp'.status = 429) =>
       /\ requests' \subseteq requests
       /\ seq' = seq
       /\ \A e \in DOMAIN endpoints' : e \in DOMAIN endpoints /\ endpoints'[e] = endpoints[e]
       /\ streams' = streams
       /\ subscribers' = subscribers
       /\ inflight' = inflight
       /\ grants.capture[resp'.ip].n = 100
       /\ now <= grants.capture[resp'.ip].deadline]_vars

\* the 101st capture of an IP in its window was rejected while a subscriber
\* was listening on the endpoint
C7_Witness ==
  /\ resp.op = "capture"
  /\ resp.status = 429
  /\ grants.capture[resp.ip].n = 100
  /\ \E h \in DOMAIN streams : streams[h].open /\ streams[h].endpoint = resp.id
  /\ resp.id \in DOMAIN endpoints

\* C11: ensureEndpoint is idempotent. A call on an id whose row is stored, no
\* deletion or sweep of the id since, returns that row (same created_at, same
\* protection) and changes no stored endpoint or request; any call stores at
\* most one new row, and a second call right after it would change nothing.
C11_EnsureIdempotent ==
  [][resp'.op \in {"captureStart", "inspect"} =>
       /\ Cardinality(DOMAIN endpoints' \ DOMAIN endpoints) <= 1
       /\ resp'.ensured = endpoints'[resp'.id]
       /\ ensureEndpoint(endpoints', resp'.id) = endpoints'
       /\ resp'.id \in DOMAIN endpoints =>
            /\ endpoints' = endpoints
            /\ requests' = requests
            /\ resp'.ensured.created_at = endpoints[resp'.id].created_at
            /\ isEndpointProtected(resp'.ensured) = isEndpointProtected(endpoints[resp'.id])]_vars

\* a second ensureEndpoint on id 1 has returned, later than the call that
\* created the row
C11_Witness ==
  /\ resp.op \in {"captureStart", "inspect"}
  /\ resp.id = 1
  /\ resp.ensured.created_at < now

\* C12: handlers racing on an id never seen before all complete without a
\* storage fault, and one endpoint row exists for the id: the row every one of
\* them holds.
C12_RaceOneRow ==
  /\ \A s \in DOMAIN inflight :
       inflight[s].kind = "capture" =>
         /\ inflight[s].id \in DOMAIN endpoints
         /\ inflight[s].row.created_at = endpoints[inflight[s].id].created_at
  /\ resp.op = "capture" => resp.status \in {200, 429}
  /\ resp.op \in {"capture", "inspect"} /\ resp.status = 200 =>
       /\ resp.id \in DOMAIN endpoints
       /\ resp.ensured.created_at = endpoints[resp.id].created_at

\* two captures started a millisecond apart on the unseen id 1; the first to
\* start has completed, the other is still reading its body
C12_Witness ==
  /\ resp.op = "capture" /\ resp.status = 200 /\ resp.id = 1
  /\ budget.requests = MaxRaceRequests - 2
  /\ resp.ensured.created_at = StartTime
  /\ \E s \in DOMAIN inflight :
       /\ inflight[s].kind = "capture" /\ inflight[s].id = 1
       /\ now > StartTime

\* C13: on a protected endpoint every API operation without a key, or with a
\* key that is not the endpoint's, ends in 401 (not 404), carries no request
\* data, and leaves endpoints, requests, subscribers and streams as they were
\* (but for the sweep every request starts with); with the endpoint's key, in
\* the query string or in the header, it does not end in 401. An unprotected
\* endpoint never answers 401.
C13_KeyRequired ==
  [][LET done == DOMAIN inflight \ DOMAIN inflight'
         db == cleanupExpired
     IN /\ \A s \in done :
             inflight[s].kind = "auth" =>
               /\ resp'.status = 401 <=>
                    inflight[s].row.password_hash # hashAccessKey(inflight[s].key)
               /\ resp'.status = 401 =>
                    UNCHANGED <<endpoints, requests, subscribers, streams>>
        /\ resp'.op \in ApiOps /\ done = {} /\ resp'.status # 404 =>
             /\ resp'.status = 401 <=>
                  (isEndpointProtected(db.endpoints[resp'.id]) /\ resp'.via = "none")
             /\ resp'.status = 401 =>
                  /\ endpoints' = db.endpoints
                  /\ requests' = db.requests
                  /\ UNCHANGED <<subscribers, streams>>
        /\ resp'.op = "authStart" =>
             /\ inflight'[resp'.slot].key # NULL
             /\ isEndpointProtected(inflight'[resp'.slot].row)
             /\ endpoints' = db.endpoints
             /\ requests' = db.requests
             /\ UNCHANGED <<subscribers, streams>>
        /\ resp'.op \in ApiOps /\ resp'.status = 401 =>
             DOMAIN resp' = {"op", "status", "id", "via", "protected"}]_vars

\* a delete of the protected endpoint with a key never issued, sent in the
\* header, was refused while the endpoint had a stored request and a subscriber
\* that had opened its stream with the key in the header
C13_Witness ==
  /\ resp.op = "deleteEndpoint" /\ resp.status = 401 /\ resp.via = "header"
  /\ resp.id = ProtectedId
  /\ RowsOf(requests, ProtectedId) # {}
  /\ SubscribersOf(subscribers, ProtectedId) # {}

\* C14: capture is never gated by access control. A capture, which carries no
\* key, is answered 429 only by the rate limit and 500 only by a failed insert,
\* never 401; answered 200 it has stored its row, moved expires_at to
\* now + EXPIRATION_MS and sent the request event to every subscriber whose
\* stream takes frames, on a protected endpoint as on an unprotected one.
C14_CaptureNotGated ==
  [][resp'.op = "capture" =>
       /\ resp'.status \in {200, 429, 500}
       /\ resp'.status = 429 =>
            ~checkRateLimit(requestLimiter, resp'.ip, RATE_LIMIT_MAX_REQUESTS).allowed
       /\ resp'.status = 500 => foreignKeys /\ resp'.id \notin DOMAIN endpoints
       /\ resp'.status = 200 =>
            LET id == resp'.id
            IN /\ \E r \in requests' : r.id = resp'.requestId /\ r.endpoint_id = id
               /\ id \in DOMAIN endpoints =>
                    /\ endpoints'[id].expires_at = now + EXPIRATION_MS
                    /\ endpoints'[id].password_hash = endpoints[id].password_hash
               /\ \A h \in SubscribersOf(subscribers, id) :
                    streams[h].open /\ ~streams[h].broken =>
                      \E r \in requests' :
                        /\ r.id = resp'.requestId
                        /\ streams'[h].frames =
                             Append(streams[h].frames,
                                    [type |-> "request", arg |-> mapRequest(r)])]_vars

\* a capture to the protected endpoint, a millisecond after its creation, was
\* stored, pushed the expiration on and reached the endpoint's subscriber
C14_Witness ==
  /\ resp.op = "capture" /\ resp.status = 200 /\ resp.id = ProtectedId
  /\ ProtectedId \in DOMAIN endpoints
  /\ isEndpointProtected(endpoints[ProtectedId])
  /\ endpoints[ProtectedId].expires_at > StartTime + EXPIRATION_MS
  /\ \E r \in requests : r.id = resp.requestId /\ r.endpoint_id = ProtectedId
  /\ \E h \in SubscribersOf(subscribers, ProtectedId) :
       streams[h].frames[Len(streams[h].frames)].type = "request"

\* a stream whose controller takes a frame
Deliverable(h) == streams[h].open /\ ~streams[h].broken

\* C15: on every live stream the first frame is the ready event; no other
\* frame is enqueued before it, whatever is interleaved with the subscribe.
C15_ReadyFirst ==
  \A h \in DOMAIN streams :
    /\ Len(streams[h].frames) >= 1
    /\ streams[h].frames[1] = ReadyFrame

\* a capture that was reading its body while a stream of its endpoint was
\* opened has finished: the stream holds ready, then the request event
C15_Witness ==
  /\ resp.op = "capture" /\ resp.status = 200 /\ ~resp.immediate
  /\ budget.requests = MaxStreamRequests - 2
  /\ budget.beats = MaxBeats
  /\ \A h \in DOMAIN streams : Deliverable(h)
  /\ \E h \in DOMAIN streams \ {1} :
       /\ streams[h].endpoint = resp.id
       /\ Len(streams[h].frames) = 2
       /\ streams[h].frames[1] = ReadyFrame
       /\ streams[h].frames[2].type = "request"
       /\ streams[h].frames[2].arg.id = resp.requestId

\* C16: a successful capture against endpoint E appends exactly one request
\* event to the stream of each subscriber registered for E whose stream takes
\* it, and nothing to any other stream; when the event is there the row is
\* stored and E is pruned to the cap; the record of the event is mapRequest of
\* the stored row, which is the record a metadata read of E returns for that id.
C16_OneRequestEvent ==
  [][resp'.op = "capture" /\ resp'.status = 200 =>
       LET id == resp'.id
           metadata == {mapRequest(r) : r \in recentRequests(requests', id)}
       IN /\ \E r \in RowsOf(requests', id) : r.id = resp'.requestId
          /\ Cardinality(RowsOf(requests', id)) <= MAX_REQUESTS_PER_ENDPOINT
          /\ \A h \in DOMAIN streams :
               IF h \in SubscribersOf(subscribers, id) /\ Deliverable(h)
               THEN \E x \in metadata :
                      /\ x.id = resp'.requestId
                      /\ \E r \in requests' : x = mapRequest(r)
                      /\ streams'[h].frames =
                           Append(streams[h].frames, [type |-> "request", arg |-> x])
               ELSE streams'[h].frames = streams[h].frames]_vars

\* a capture with a truncated body to endpoint 1 reached the subscriber of
\* endpoint 1 while the protected endpoint had a subscriber too
C16_Witness ==
  /\ resp.op = "capture" /\ resp.status = 200 /\ resp.id = 1
  /\ \E h \in SubscribersOf(subscribers, 1) :
       LET last == streams[h].frames[Len(streams[h].frames)]
       IN /\ last.type = "request"
          /\ last.arg.id = resp.requestId
          /\ last.arg.truncated
          /\ last.arg.query = {<<"a", "1">>}
  /\ \E h \in SubscribersOf(subscribers, ProtectedId) :
       streams[h].frames = <<ReadyFrame>>

\* C17: a successful delete of endpoint E sends endpoint_deleted to every
\* subscriber of E whose stream takes it and closes the stream, so that the
\* event is its last frame; afterwards the registry has no entry for E and no
\* stream of E is registered. A closed stream never gains a frame.
C17_DeletedThenClosed ==
  [][/\ resp'.op = "deleteEndpoint" /\ resp'.status = 200 =>
          /\ resp'.id \notin DOMAIN subscribers'
          /\ \A h \in DOMAIN streams' :
               streams'[h].endpoint = resp'.id =>
                 /\ ~streams'[h].registered
                 /\ ~streams'[h].heartbeat
                 /\ \A e \in DOMAIN subscribers' : h \notin subscribers'[e]
          /\ \A h \in SubscribersOf(subscribers, resp'.id) :
               Deliverable(h) =>
                 /\ streams'[h].frames =
                      Append(streams[h].frames, [type |-> "endpoint_deleted", arg |-> 0])
                 /\ ~streams'[h].open
     /\ \A h \in DOMAIN streams :
          ~streams[h].open => streams'[h].frames = streams[h].frames]_vars

\* endpoint 1 was deleted while it had two subscribers: both streams end with
\* endpoint_deleted and are closed
C17_Witness ==
  /\ resp.op = "deleteEndpoint" /\ resp.status = 200 /\ resp.id = 1
  /\ Cardinality({h \in DOMAIN streams :
                    /\ streams[h].endpoint = 1
                    /\ ~streams[h].open
                    /\ streams[h].frames[Len(streams[h].frames)].type = "endpoint_deleted"})
       = 2

\* C19: when a broadcast to endpoint E meets subscribers whose delivery fails,
\* those are unregistered and their heartbeat stopped, every other subscriber
\* of E gets the event and stays registered, the subscribers of other
\* endpoints are untouched, and the capture or delete that broadcasts answers
\* 200.
C19_FailureIsLocal ==
  [][resp'.op \in {"capture", "deleteRequest", "clearRequests"} =>
       LET id == resp'.id
           subs == SubscribersOf(subscribers, id)
           failed == {h \in subs : ~Deliverable(h)}
           dropped == {h \in DOMAIN streams : streams[h].registered /\ ~streams'[h].registered}
       IN /\ dropped # {} => resp'.status = 200 /\ dropped = failed
          /\ resp'.status = 200 /\ streams' # streams =>
               /\ SubscribersOf(subscribers', id) = subs \ failed
               /\ \A h \in subs \ failed :
                    /\ Len(streams'[h].frames) = Len(streams[h].frames) + 1
                    /\ streams'[h].registered /\ streams'[h].open
               /\ \A h \in failed :
                    /\ ~streams'[h].registered /\ ~streams'[h].heartbeat
                    /\ streams'[h].frames = streams[h].frames
               /\ \A e \in (DOMAIN subscribers \cup DOMAIN subscribers') \ {id} :
                    SubscribersOf(subscribers', e) = SubscribersOf(subscribers, e)]_vars

\* a capture to endpoint 1 met two subscribers, the first of which had lost its
\* connection: that one is unregistered, the other holds the request event
C19_Witness ==
  /\ resp.op = "capture" /\ resp.status = 200 /\ resp.id = 1
  /\ \E h1, h2 \in DOMAIN streams :
       /\ h1 < h2
       /\ streams[h1].endpoint = 1 /\ streams[h2].endpoint = 1
       /\ streams[h1].broken /\ ~streams[h1].registered
       /\ streams[h1].frames = <<ReadyFrame>>
       /\ h2 \in SubscribersOf(subscribers, 1)
       /\ streams[h2].frames[Len(streams[h2].frames)].type = "request"
       /\ streams[h2].frames[Len(streams[h2].frames)].arg.id = resp.requestId

\* C20: the registry never maps an endpoint id to an empty set.
C20_NoEmptySet == \A id \in DOMAIN subscribers : subscribers[id] # {}

\* the only subscriber of an endpoint went away, by a disconnect or by a failed
\* delivery, and the registry has no entry for the endpoint
C20_Witness ==
  \E h \in DOMAIN streams :
    /\ ~streams[h].registered
    /\ streams[h].endpoint \in DOMAIN endpoints
    /\ streams[h].endpoint \notin DOMAIN subscribers

\* C18: no subscriber is registered for an endpoint id whose row is gone,
\* removed by the delete operation or by the expiration sweep.
C18_NoSubscriberWithoutEndpoint ==
  \A id \in DOMAIN subscribers : id \in DOMAIN endpoints

\* C21: a stream's heartbeat interval is set only while its subscriber is
\* registered, and the subscriber is in the registry exactly while the stream
\* holds it; a stream that was cancelled or closed is unregistered with its
\* interval cleared; cleanup() run once more changes nothing.
C21_HeartbeatWithRegistration ==
  \A h \in DOMAIN streams :
    /\ streams[h].heartbeat => streams[h].registered
    /\ streams[h].registered <=>
         h \in SubscribersOf(subscribers, streams[h].endpoint)
    /\ \A e \in DOMAIN subscribers : h \in subscribers[e] => e = streams[h].endpoint
    /\ ~streams[h].open => ~streams[h].registered /\ ~streams[h].heartbeat
    /\ LET once == cleanup(subscribers, streams, h)
       IN /\ ~once.streams[h].registered /\ ~once.streams[h].heartbeat
          /\ h \notin SubscribersOf(once.subscribers, streams[h].endpoint)
          /\ cleanup(once.subscribers, once.streams, h) = once
          /\ ~streams[h].registered =>
               once = [subscribers |-> subscribers, streams |-> streams]

\* a heartbeat met a lost connection: its send failed and tore the stream down
C21_Witness ==
  /\ resp.op = "heartbeat"
  /\ streams[resp.handle].broken
  /\ ~streams[resp.handle].registered
  /\ ~streams[resp.handle].heartbeat
  /\ streams[resp.handle].endpoint \notin DOMAIN subscribers

\* C22: the sweep body runs at most once per CLEANUP_THROTTLE_MS: it runs only
\* when that long has passed since it last ran, and then notes the time; a
\* request that comes sooner removes no endpoint and no request row, and a
\* request that only passes onRequest changes nothing at all.
C22_SweepThrottled ==
  [][/\ lastCleanup' # lastCleanup =>
          /\ lastCleanup' = now
          /\ now - lastCleanup >= CLEANUP_THROTTLE_MS
     /\ now' = now /\ now - lastCleanup < CLEANUP_THROTTLE_MS =>
          /\ lastCleanup' = lastCleanup
          /\ DOMAIN endpoints \subseteq DOMAIN endpoints'
          /\ requests \subseteq requests'
          /\ resp'.op = "other" => UNCHANGED <<endpoints, requests>>]_vars

\* a request came a millisecond after a sweep and left an endpoint that had
\* expired in that millisecond
C22_Witness ==
  /\ resp.op = "other"
  /\ lastCleanup > StartTime
  /\ now - lastCleanup < CLEANUP_THROTTLE_MS
  /\ \E e \in DOMAIN endpoints : endpoints[e].expires_at <= now

\* C23: a sweep that runs at time now deletes exactly the endpoints with
\* expires_at <= now and the request rows of those endpoints, and leaves every
\* other endpoint and every other request row as it was.
C23_SweepDeletesExpired ==
  [][resp'.op = "other" /\ lastCleanup' # lastCleanup =>
       LET expired == {e \in DOMAIN endpoints : endpoints[e].expires_at <= now}
       IN /\ DOMAIN endpoints' = DOMAIN endpoints \ expired
          /\ \A e \in DOMAIN endpoints' : endpoints'[e] = endpoints[e]
          /\ requests' = {r \in requests : r.endpoint_id \notin expired}]_vars

\* a sweep at the millisecond the protected endpoint expired removed it and its
\* request, and left endpoint 1, refreshed a millisecond later, with its requests
C23_Witness ==
  /\ resp.op = "other"
  /\ lastCleanup = now
  /\ now = StartTime + EXPIRATION_MS
  /\ ProtectedId \in swept
  /\ ProtectedId \notin DOMAIN endpoints
  /\ RowsOf(requests, ProtectedId) = {}
  /\ 1 \in DOMAIN endpoints
  /\ endpoints[1].expires_at = now + 1
  /\ Cardinality(RowsOf(requests, 1)) = 2

\* C24: a capture answered with success leaves its endpoint stored with
\* expires_at = now + EXPIRATION_MS.
C24_CaptureKeepsAlive ==
  resp.op = "capture" /\ resp.status = 200 =>
    /\ resp.id \in DOMAIN endpoints
    /\ endpoints[resp.id].expires_at = now + EXPIRATION_MS

\* C25: after the inspector page of an endpoint is served, the endpoint's
\* expires_at is now + EXPIRATION_MS.
C25_InspectorRefreshes ==
  resp.op = "inspect" /\ resp.status = 200 =>
    /\ resp.id \in DOMAIN endpoints
    /\ endpoints[resp.id].expires_at = now + EXPIRATION_MS

\* C26: a capture of a request whose body carries an Event Grid subscription
\* validation event is stored like any other and answered with the JSON object
\* {"validationResponse": <the validation code>}; every other capture gets the
\* usual acknowledgement.
C26_ValidationHandshake ==
  resp.op = "capture" /\ resp.status = 200 =>
    /\ \E r \in requests : r.id = resp.requestId /\ r.endpoint_id = resp.id
    /\ resp.response =
         IF resp.request.validationCode # NoText
         THEN [contentType |-> "application/json",
               body |-> JSONstringify({<<"validationResponse", resp.request.validationCode>>})]
         ELSE captureResponse(resp.request)

\* C27: a request turned away for its endpoint id creates no endpoint, stores
\* no request row, changes no limiter entry, registers no subscriber, sends no
\* frame and starts no capture; an id that is not 32 hex characters never names
\* an endpoint, a request row, a subscription or a pending handler.
C27_InvalidIdTouchesNothing ==
  [][/\ resp'.op = "rejected" =>
          /\ DOMAIN endpoints' \subseteq DOMAIN endpoints
          /\ \A e \in DOMAIN endpoints' : endpoints'[e] = endpoints[e]
          /\ requests' \subseteq requests
          /\ UNCHANGED <<seq, generated, limiterVars, grants, sseVars, inflight>>
     /\ InvalidId \notin DOMAIN endpoints'
     /\ InvalidId \notin DOMAIN subscribers'
     /\ \A r \in requests' : r.endpoint_id # InvalidId
     /\ \A s \in DOMAIN inflight' : inflight'[s].id # InvalidId]_vars

\* the capture route turned away a request for "not-a-valid-id" with 404 after
\* the sweep of its onRequest hook had removed the expired endpoints
C27_Witness ==
  /\ resp.op = "rejected"
  /\ resp.route = "capture"
  /\ resp.id = InvalidId
  /\ resp.status = 404
  /\ lastCleanup = now
  /\ now > StartTime + 1
  /\ 1 \in swept
  /\ endpoints = EmptyMap

\* C28: every stored endpoint has an id of 32 lowercase hex characters, and
\* the id of a stored endpoint never changes.
C28_LowercaseHexIds ==
  \A e \in DOMAIN endpoints :
    /\ matchesIdPattern(e)
    /\ endpoints[e].id = e

\* C29: every inserted request row gets an id greater than every id assigned
\* before, those of rows since deleted included: the sequence never steps
\* back, a new row's id is above the sequence and above every stored id, no
\* stored id is above the sequence, no two rows share an id, and a row with a
\* greater id was not stored earlier.
C29_RequestIdsIncrease ==
  [][/\ seq' >= seq
     /\ \A r \in requests' \ requests :
          /\ r.id > seq
          /\ r.id = seq'
          /\ \A q \in requests : q.id < r.id /\ q.created_at <= r.created_at
     /\ \A r \in requests' : r.id <= seq'
     /\ \A r, q \in requests' : r.id = q.id => r = q]_vars

\* a capture was stored after the row with the greatest id had been deleted,
\* and got the id after the deleted one
C29_Witness ==
  /\ resp.op = "capture"
  /\ resp.status = 200
  /\ resp.requestId = seq
  /\ seq >= 3
  /\ \A r \in requests : r.id # seq - 1
  /\ \E r \in requests : r.id = seq

\* the entry of key ip in a limiter map, as a set
EntryOf(lim, ip) == IF ip \in DOMAIN lim THEN {lim[ip]} ELSE {}

\* C30: checkRateLimit on one limiter map and one key changes the entry of
\* that key in that map and nothing else: a create changes only the caller's
\* entry of endpointCreateLimiter, a capture only the caller's entry of
\* requestLimiter, and in every state a call for one address leaves the
\* entries of the other addresses in the same map as they are.
C30_LimitersIndependent ==
  [][/\ \A k \in Ips :
          EntryOf(endpointCreateLimiter', k) # EntryOf(endpointCreateLimiter, k) =>
            /\ resp'.op = "create"
            /\ resp'.ip = k
            /\ requestLimiter' = requestLimiter
     /\ \A k \in Ips :
          EntryOf(requestLimiter', k) # EntryOf(requestLimiter, k) =>
            /\ \/ resp'.op = "capture" /\ resp'.ip = k
               \/ resp'.op = "captureStart" /\ inflight'[resp'.slot].ip = k
            /\ endpointCreateLimiter' = endpointCreateLimiter
     /\ \A k \in Ips : \A j \in Ips \ {k} :
          /\ EntryOf(checkRateLimit(endpointCreateLimiter, k,
                                    RATE_LIMIT_MAX_ENDPOINT_CREATES).limiter, j)
               = EntryOf(endpointCreateLimiter, j)
          /\ EntryOf(checkRateLimit(requestLimiter, k, RATE_LIMIT_MAX_REQUESTS).limiter, j)
               = EntryOf(requestLimiter, j)]_vars

\* address 1 was refused an eleventh create after address 2 had created an
\* endpoint and address 1 had captured a request; address 2 may still create
\* and address 1 may still capture
C30_Witness ==
  /\ resp.op = "create"
  /\ resp.status = 429
  /\ resp.ip = 1
  /\ endpointCreateLimiter[1].count = RATE_LIMIT_MAX_ENDPOINT_CREATES
  /\ EntryOf(endpointCreateLimiter, 2) = {[count |-> 1, resetTime |-> now + RATE_LIMIT_WINDOW_MS]}
  /\ EntryOf(requestLimiter, 1) = {[count |-> 1, resetTime |-> now + RATE_LIMIT_WINDOW_MS]}
  /\ checkRateLimit(endpointCreateLimiter, 2, RATE_LIMIT_MAX_ENDPOINT_CREATES).allowed
  /\ checkRateLimit(requestLimiter, 1, RATE_LIMIT_MAX_REQUESTS).allowed

\* C31: the row a capture stores for a body of n bytes holds the decoding of
\* the first min(n, 524288) bytes, is marked truncated exactly when n > 524288,
\* and holds NULL for the body exactly when n = 0; a read shows it so.
C31_BodyCap ==
  resp.op = "capture" /\ resp.status = 200 =>
    \E r \in requests :
      LET n == resp.request.bytes
      IN /\ r.id = resp.requestId
         /\ (r.body = NoText) = (n = 0)
         /\ n > 0 => r.body = <<"utf8", IF n < 524288 THEN n ELSE 524288, resp.request.text>>
         /\ (r.truncated = 1) = (n > 524288)
         /\ r.truncated \in {0, 1}
         /\ mapRequest(r).truncated = (n > 524288)
         /\ mapRequest(r).body = r.body

\* a body of 600 KiB was stored cut to 524288 bytes and marked truncated
C31_Witness ==
  /\ resp.op = "capture"
  /\ resp.status = 200
  /\ resp.request.bytes = 600 * 1024
  /\ \E r \in requests :
       r.id = resp.requestId /\ r.body = <<"utf8", 524288, "xxx...">> /\ r.truncated = 1

\* the number a limit stands for: a limit that begins with a positive number
\* stands for that number, any other limit ("" included) for none
C32_LimitOf(str) ==
  CASE str = "1" -> 1
    [] str = "2" -> 2
    [] str = "2abc" -> 2
    [] OTHER -> 0

\* C32: a filtered read answers exactly the requests of the metadata read that
\* satisfy every filter supplied (a key:value filter with no key before a colon
\* supplies none), cut to the newest N when the limit is a positive number N
\* and uncut otherwise; applying any two filters in either order selects the
\* same requests from any part of the metadata read.
C32_FiltersConjoin ==
  resp.op = "filtered" /\ resp.status = 200 =>
    LET meta == {mapRequest(r) : r \in recentRequests(requests, resp.id)}
        f == resp.filter
        names == {FilterNames[i] : i \in DOMAIN FilterNames}
        sat == {r \in meta :
                  \A name \in names : filterApplies(name, f) => matchesFilter(name, r, f)}
        n == C32_LimitOf(f.limit)
    IN /\ Cardinality(meta) <= 100
       /\ resp.requests \subseteq meta
       /\ n > 0 => resp.requests =
                     {r \in sat : Cardinality({q \in sat : q.id > r.id}) < n}
       /\ n = 0 => resp.requests = sat
       /\ \A part \in SUBSET meta : \A a, b \in names :
            applyFilter(a, applyFilter(b, part, f), f)
              = applyFilter(b, applyFilter(a, part, f), f)

\* body_key=user_id answers only the request with the body {"user_id":1}
C32_Witness ==
  /\ resp.op = "filtered"
  /\ resp.status = 200
  /\ resp.filter = [NoFilter EXCEPT !.body_key = "user_id"]
  /\ Cardinality(RowsOf(requests, 1)) = 4
  /\ \E r \in resp.requests : resp.requests = {r} /\ r.id = 1 /\ r.body[3] = UserBody

\* method=post with body=status and limit=1 answers the one posted request
\* whose body holds "status", not the newer or the put ones
C32_WitnessCombined ==
  /\ resp.op = "filtered"
  /\ resp.status = 200
  /\ resp.filter = [NoFilter EXCEPT !.method = "post", !.body = "status", !.limit = "1"]
  /\ \E r \in resp.requests : resp.requests = {r} /\ r.id = 3 /\ r.body[3] = NoteBody

\* C33: a single-request delete on endpoint E for request r answers success
\* only when r is a row of E; it then removes that row and no other and sends
\* request_deleted with r to the subscribers of E whose streams take it and
\* to no other stream. When r is no row of E, of another endpoint or of none,
\* the answer is not found, no row is removed and no frame is sent.
C33_DeleteIsScoped ==
  [][resp'.op = "deleteRequest" =>
       LET E == resp'.id
           mine == IF resp'.status \in {200, 404} /\ "requestId" \in DOMAIN resp'
                   THEN {r \in requests : r.id = resp'.requestId /\ r.endpoint_id = E}
                   ELSE {}
       IN /\ resp'.status = 200 =>
               /\ mine # {}
               /\ requests' = requests \ mine
               /\ Cardinality(requests') = Cardinality(requests) - 1
               /\ \A h \in DOMAIN streams :
                    IF h \in SubscribersOf(subscribers, E) /\ Deliverable(h)
                    THEN streams'[h].frames =
                           Append(streams[h].frames,
                                  [type |-> "request_deleted", arg |-> resp'.requestId])
                    ELSE streams'[h].frames = streams[h].frames
          /\ resp'.status # 200 =>
               /\ mine = {}
               /\ requests' = requests
               /\ UNCHANGED sseVars]_vars

\* a delete on endpoint 1 named the request of the protected endpoint: not
\* found, and the request, its endpoint's subscriber and the subscriber of
\* endpoint 1 saw nothing
C33_Witness ==
  /\ resp.op = "deleteRequest"
  /\ resp.status = 404
  /\ resp.id = 1
  /\ "requestId" \in DOMAIN resp
  /\ \E r \in RowsOf(requests, ProtectedId) : r.id = resp.requestId
  /\ \E h \in SubscribersOf(subscribers, 1) : streams[h].frames = <<ReadyFrame>>
  /\ \E h \in SubscribersOf(subscribers, ProtectedId) : streams[h].frames = <<ReadyFrame>>

\* a delete on endpoint 1 removed its request and told its subscriber only
C33_WitnessDeleted ==
  /\ resp.op = "deleteRequest"
  /\ resp.status = 200
  /\ resp.id = 1
  /\ RowsOf(requests, 1) = {}
  /\ RowsOf(requests, ProtectedId) # {}
  /\ \E h \in SubscribersOf(subscribers, 1) :
       streams[h].frames = <<ReadyFrame, [type |-> "request_deleted", arg |-> 1]>>
  /\ \E h \in SubscribersOf(subscribers, ProtectedId) : streams[h].frames = <<ReadyFrame>>

\* C34: a bulk clear on endpoint E removes every request row of E and no row
\* of another endpoint, changes no endpoint row, reports how many rows it
\* removed, and sends requests_cleared to the subscribers of E whose streams
\* take it exactly when it removed a row, and nothing to any other stream.
C34_ClearIsScoped ==
  [][resp'.op = "clearRequests" /\ resp'.status = 200 =>
       LET E == resp'.id
       IN /\ RowsOf(requests', E) = {}
          /\ requests' = {r \in requests : r.endpoint_id # E}
          /\ endpoints' = endpoints
          /\ resp'.deleted = Cardinality(requests) - Cardinality(requests')
          /\ \A h \in DOMAIN streams :
               IF resp'.deleted > 0 /\ h \in SubscribersOf(subscribers, E) /\ Deliverable(h)
               THEN streams'[h].frames =
                      Append(streams[h].frames, [type |-> "requests_cleared", arg |-> 0])
               ELSE streams'[h].frames = streams[h].frames]_vars

\* a clear on endpoint 1 removed its two requests, kept the request and the
\* row of the protected endpoint, and told the subscriber of endpoint 1
C34_Witness ==
  /\ resp.op = "clearRequests"
  /\ resp.status = 200
  /\ resp.id = 1
  /\ resp.deleted = 2
  /\ RowsOf(requests, 1) = {}
  /\ Cardinality(RowsOf(requests, ProtectedId)) = 1
  /\ 1 \in DOMAIN endpoints
  /\ \E h \in SubscribersOf(subscribers, 1) :
       streams[h].frames[Len(streams[h].frames)] = [type |-> "requests_cleared", arg |-> 0]

\* a second clear on endpoint 1 removed nothing and sent nothing
C34_WitnessEmpty ==
  /\ resp.op = "clearRequests"
  /\ resp.status = 200
  /\ resp.id = 1
  /\ resp.deleted = 0
  /\ \E h \in SubscribersOf(subscribers, 1) :
       streams[h].frames = <<ReadyFrame, [type |-> "requests_cleared", arg |-> 0]>>

\* C35: every stored request row belongs to a stored endpoint, whatever
\* interleaving of captures, deletes and sweeps led to the state.
C35_RowsHaveEndpoint ==
  \A r \in requests : r.endpoint_id \in DOMAIN endpoints

\* C36: the request stored for the protected endpoint when it was protected
\* (captured at StartTime) is in the answer of a metadata or filtered read of
\* that id only when the endpoint is protected at the read, which the caller
\* then passed with its key; and it is in no frame of a stream.
C36_ProtectedRequestsStayPrivate ==
  /\ resp.op \in {"metadata", "filtered"} /\ resp.status = 200 /\ resp.id = ProtectedId =>
       \/ resp.protected /\ resp.via # "none"
       \/ \A x \in resp.requests : x.createdAt # StartTime
  /\ \A h \in DOMAIN streams : \A i \in DOMAIN streams[h].frames :
       streams[h].frames[i].type = "request" => streams[h].frames[i].arg.createdAt # StartTime

\* C37: an endpoint row that a step does not sweep (the step does not run the
\* sweep, or the row has not expired) and leaves stored keeps its id,
\* created_at and password_hash, and its expires_at does not decrease; such a
\* row changes only in a successful capture to its endpoint, which sets
\* expires_at to now + EXPIRATION_MS, and it goes only by the delete of its
\* endpoint; a row stored under the id of a swept row is a new row.
C37_EndpointRowIsStable ==
  [][LET sweptNow(e) == lastCleanup' # lastCleanup /\ endpoints[e].expires_at <= now
     IN \A e \in DOMAIN endpoints :
          IF sweptNow(e)
          THEN e \in DOMAIN endpoints' => endpoints'[e].created_at = now
          ELSE IF e \in DOMAIN endpoints'
          THEN /\ endpoints'[e].id = endpoints[e].id
               /\ endpoints'[e].created_at = endpoints[e].created_at
               /\ endpoints'[e].password_hash = endpoints[e].password_hash
               /\ endpoints'[e].expires_at >= endpoints[e].expires_at
               /\ endpoints'[e] # endpoints[e] =>
                    /\ resp'.op = "capture" /\ resp'.status = 200 /\ resp'.id = e
                    /\ endpoints'[e].expires_at = now + EXPIRATION_MS
          ELSE resp'.op = "deleteEndpoint" /\ resp'.status = 200 /\ resp'.id = e]_vars

\* a protected endpoint was refreshed by a capture after its creation and is
\* still protected and of the same age
C37_Witness ==
  /\ resp.op = "capture" /\ resp.status = 200
  /\ resp.id \in DOMAIN endpoints
  /\ endpoints[resp.id].password_hash # NULL
  /\ endpoints[resp.id].created_at < now
  /\ endpoints[resp.id].expires_at = now + EXPIRATION_MS

\* C38: a stream whose sends throw is eventually out of the registry with its
\* heartbeat interval cleared, with no cancel from the client; the heartbeat
\* tick of such a stream, and a broadcast of a capture to the endpoint it is
\* registered for, each leave it unregistered and without heartbeat.
C38_FailedStreamIsRemoved ==
  /\ \A h \in FailureHandles :
       (h \in DOMAIN streams /\ streams[h].broken)
         ~> (/\ h \in DOMAIN streams
             /\ ~streams[h].registered
             /\ ~streams[h].heartbeat
             /\ h \notin SubscribersOf(subscribers, streams[h].endpoint))
  /\ [][\A h \in DOMAIN streams :
          /\ streams[h].broken
          /\ \/ resp'.op = "heartbeat" /\ resp'.handle = h
             \/ /\ resp'.op = "capture" /\ resp'.status = 200
                /\ resp'.id = streams[h].endpoint
                /\ seq' # seq
                /\ streams[h].registered
          => /\ ~streams'[h].registered
             /\ ~streams'[h].heartbeat
             /\ h \notin SubscribersOf(subscribers', streams[h].endpoint)]_vars

\* the heartbeat tick of a stream that lost its connection has removed it from
\* the registry and cleared its interval
C38_Witness ==
  /\ resp.op = "heartbeat"
  /\ resp.handle \in DOMAIN streams
  /\ streams[resp.handle].broken /\ streams[resp.handle].open
  /\ ~streams[resp.handle].registered
  /\ ~streams[resp.handle].heartbeat
  /\ resp.handle \notin SubscribersOf(subscribers, streams[resp.handle].endpoint)

\* C39: the limiter timer removes from each limiter map only entries whose
\* resetTime lies before now and leaves the others as they are; and for each
\* limiter map, each client address and each cap, checkRateLimit at the time of
\* the next state (the same millisecond or a later one) gives the same allowed,
\* remaining and resetIn and stores the same entry for the address on the map
\* as it is and on the map as the timer would leave it now.
C39_SweepIsNeutral ==
  [][/\ resp'.op = "limiterTimer" =>
          \A pair \in {<<endpointCreateLimiter, endpointCreateLimiter'>>,
                        <<requestLimiter, requestLimiter'>>} :
            /\ DOMAIN pair[2] \subseteq DOMAIN pair[1]
            /\ \A ip \in DOMAIN pair[1] :
                 IF ip \in DOMAIN pair[2] THEN pair[2][ip] = pair[1][ip]
                 ELSE pair[1][ip].resetTime < now
     /\ \A lim \in {endpointCreateLimiter, requestLimiter} :
          \A kept \in {sweepLimiter(lim)} :
            \A ip \in Ips :
              \A maxReq \in 1..MaxLimit \cup {RATE_LIMIT_MAX_ENDPOINT_CREATES,
                                                RATE_LIMIT_MAX_REQUESTS} :
                LET unswept == (checkRateLimit(lim, ip, maxReq))'
                    afterSweep == (checkRateLimit(kept, ip, maxReq))'
                IN /\ afterSweep.allowed = unswept.allowed
                   /\ afterSweep.remaining = unswept.remaining
                   /\ afterSweep.resetIn = unswept.resetIn
                   /\ afterSweep.limiter[ip] = unswept.limiter[ip]]_vars

\* the timer has removed the lapsed entry of one client address from the
\* request limiter and kept the running entry of another
C39_Witness ==
  /\ resp.op = "limiterTimer"
  /\ \E ip \in DOMAIN grants.capture :
       /\ ip \notin DOMAIN requestLimiter
       /\ grants.capture[ip].deadline < now
  /\ \E ip \in DOMAIN requestLimiter : requestLimiter[ip].resetTime >= now
====
